---- MODULE Spec2Model ----
(***************************************************************************)
(* A model of the boba workflow engine: the handler lifecycle with retry   *)
(* (Handler), the graph traversal (Pipeline), and the batch orchestrators  *)
(* (BatchPipeline, ParallelBatchPipeline).                                 *)
(*                                                                         *)
(* JavaScript runs one task at a time and switches tasks only at an await. *)
(* Every action below is one such segment: the code between two awaits of  *)
(* one pipeline execution ("task").  Contexts are objects on a heap (ctx), *)
(* their array field is an object of its own (arr), so that sharing a      *)
(* reference and copying a value are different things in the model.        *)
(***************************************************************************)
EXTENDS Integers, Sequences, FiniteSets, TLC

\* ------------------------------------------------------------------ bounds
MaxRetriesBound == 3    \* maxRetries of a handler is drawn from 1..MaxRetriesBound
MaxSteps == 3           \* unit runs one pipeline execution may begin
MaxEdges == 3           \* transitions registered in the graph
MaxItems == 5            \* items of a batch handler's batch
MaxConc == 3             \* maxConcurrency of a batch handler is drawn from 1..MaxConc
MaxItemRetries == 2      \* maxRetries of a batch handler is drawn from 1..MaxItemRetries
MaxRuns == 2            \* parameter sets of a batch orchestrator
MaxLiveEdges == 2        \* transitions of the graphs termination is checked on

\* ------------------------------------------------------------- the graph
Handlers == {"A", "B"}          \* retrying units (Handler subclasses)
Pipelines == {"P1"}             \* a Pipeline used as a unit of another pipeline
Template == "P0"                \* the top-level (template) Pipeline
Batch == "BP"                   \* the batch orchestrator (BatchPipeline or parallel)
Units == Handlers \cup Pipelines
None == "none"                  \* undefined: no successor, no handler, no context
Labels == {"default", "go"}     \* action labels the units return
Tasks == 1..MaxRuns             \* pipeline executions (Pipeline.run calls)
Main == 0                       \* heap address of the caller's context

VARIABLES
    successors,         \* BaseHandler.successors, per unit: label -> unit or None
    startHandler,       \* Pipeline.startHandler, per pipeline
    maxRetries,         \* Handler.config.maxRetries, per handler
    retryDelayMs,       \* Handler.config.retryDelayMs, per handler
    currentRetry,       \* Handler.currentRetry, per handler instance
    params,             \* BaseHandler.params, per unit
    ctx,                \* heap of context objects: address -> (key -> value)
    arr,                \* heap of array objects: address -> sequence
    task,               \* the pipeline executions
    drv,                \* the batch orchestrator's own run
    bh                  \* the run of a unit that is run directly (batch and async handlers)

vars == <<successors, startHandler, maxRetries, retryDelayMs, currentRetry, params, ctx, arr, task, drv, bh>>
graph == <<successors, startHandler, maxRetries, retryDelayMs, params>>

\* ------------------------------------------------------------ pure helpers
NoParams == [k \in {} |-> 0]

\* Object.assign(target, source): every key of source written over target.
ObjectAssignTargetWins(target, source) ==
    [k \in (DOMAIN target) \cup (DOMAIN source) |->
        IF k \in DOMAIN target THEN target[k] ELSE source[k]]
ObjectAssign(target, source) ==
    [k \in (DOMAIN target) \cup (DOMAIN source) |->
        IF k \in DOMAIN source THEN source[k] ELSE target[k]]

\* BaseHandler.getNextHandler: Map.get, undefined when the label is absent.
getNextHandlerDefault(u, action) ==
    IF successors[u][action] # None THEN successors[u][action]
    ELSE successors[u]["default"]
getNextHandlerOfStart(u, action) == successors[startHandler[Template]][action]
getNextHandler(u, action) == successors[u][action]

\* The registered transitions of a family of tables.
Edges(succ) == {e \in Units \X Labels : succ[e[1]][e[2]] # None}

\* BaseHandler.hasSuccessors
hasSuccessors(u) == \E l \in Labels : successors[u][l] # None

\* The model handler's prepareInputs: the parameter "a" read from the context.
prepareInputs(c) == IF "a" \in DOMAIN c THEN c["a"] ELSE 0

\* The model handler's handleRequest on success: the input echoed as output.
OkOutput(inputs) == [kind |-> "ok", val |-> inputs]

\* The substitute output an overriding handleError returns.
FallbackOutputStale == [kind |-> "ok", val |-> 0]
FallbackOutput == [kind |-> "fallback", val |-> 0]

\* Address of the array a context object at address c allocates
\* (`sharedData.path = []`): one array per context object.
FreshArr(c) == c

\* The model handler's processResults keeps a maximum in `best` when the
\* context has that key: it assigns the key only when its output is larger.
BestAfterProcess(c, out) ==
    IF "best" \in DOMAIN c /\ out.val > c["best"] THEN [best |-> out.val] ELSE NoParams

\* The model handler's processResults on the context object at address c:
\* records the output it was given, adds it to count and pushes on path.
CtxAfterProcess(heap, c, out) ==
    [heap EXCEPT ![c] = ObjectAssign(ObjectAssign(heap[c],
        [path |-> IF "path" \in DOMAIN heap[c] THEN heap[c]["path"] ELSE FreshArr(c),
         count |-> (IF "count" \in DOMAIN heap[c] THEN heap[c]["count"] ELSE 0) + out.val,
         output |-> out.kind]), BestAfterProcess(heap[c], out))]

ArrAfterProcess(arrs, heap, c, u, out) ==
    LET ref == IF "path" \in DOMAIN heap[c] THEN heap[c]["path"] ELSE FreshArr(c)
        old == IF "path" \in DOMAIN heap[c] THEN arrs[ref] ELSE <<>>
    IN [arrs EXCEPT ![ref] = Append(old, [u |-> u, v |-> out.val])]

\* ------------------------------------------------------- entering a unit
\* Calling run on unit u: a Pipeline merges its params and hands over to its
\* start handler (Pipeline.run, orchestrate), down to the first Handler, whose
\* run merges its own params (BaseHandler.run).
RECURSIVE EnterHandler(_), EnterStack(_, _), EnterCtx(_, _), EnterBegun(_, _)
EnterHandler(u) == IF u \in Pipelines THEN EnterHandler(startHandler[u]) ELSE u
EnterStack(u, stk) ==
    IF u \in Pipelines THEN EnterStack(startHandler[u], <<u>> \o stk) ELSE stk
EnterCtx(u, c) ==
    IF u \in Pipelines THEN EnterCtx(startHandler[u], ObjectAssign(c, params[u]))
    ELSE ObjectAssign(c, params[u])
EnterBegun(u, d) ==
    IF u \in Pipelines
    THEN <<[d |-> d, u |-> u]>> \o EnterBegun(startHandler[u], d + 1)
    ELSE <<[d |-> d, u |-> u]>>

\* BaseHandler.run(sharedData, isOrchestrated = false), lines 214-217: the
\* warning "Handler won't run successors. Use Pipeline." is written when the
\* handler has successors and isOrchestrated is false.  Pipeline.orchestrate
\* calls currentHandler.run(sharedData) with one argument (pipeline.ts, line
\* 110), so isOrchestrated takes its default there.  Pipeline.run overrides
\* run and writes no such warning.
isOrchestrated == FALSE
RunWarns(u) == u \in Handlers /\ hasSuccessors(u) /\ ~isOrchestrated

\* A pipeline execution that has not started.  cur, stack, inputs, lastAction
\* are the locals of orchestrate and executeLifecycle; the other fields record
\* what the current handler run has called (calls of handleRequest, outcome of
\* each attempt, calls and outcome of handleError, calls of processResults,
\* retry delays started) and
\* the units begun and returned so far, with their depth of nesting, and the
\* handlers whose run wrote the successors warning.
IdleTask ==
    [pc |-> "idle", cur |-> None, stack |-> <<>>, ctx |-> Main,
     inputs |-> 0, lastAction |-> "default", last |-> None,
     calls |-> 0, attempts |-> <<>>, errCalls |-> 0, errOutcome |-> "none",
     prepCalls |-> 0, procCalls |-> 0, begun |-> <<>>, hist |-> <<>>, merges |-> 0,
     sleeps |-> 0, warned |-> <<>>]

\* A task record after run has been called on unit u with context object c:
\* BaseHandler.run, Handler.executeLifecycle and executeWithRetry up to the
\* first call of handleRequest.
TaskEntered(tk, u, c) ==
    LET h == EnterHandler(u)
    IN [tk EXCEPT !.pc = "computing",
                  !.cur = h,
                  !.stack = EnterStack(u, tk.stack),
                  !.inputs = prepareInputs(EnterCtx(u, c)),
                  !.last = h,
                  !.calls = 1, !.attempts = <<>>, !.errCalls = 0,
                  !.errOutcome = "none", !.prepCalls = 1, !.procCalls = 0,
                  !.sleeps = 0,
                  !.begun = tk.begun \o EnterBegun(u, Len(tk.stack)),
                  !.warned = IF RunWarns(h) THEN Append(tk.warned, h) ELSE tk.warned]

\* Handler.executeWithRetry, lines 58-62: the loop's next iteration calls
\* handleRequest again with the inputs prepareInputs returned before the loop.
TaskRetriedFromPrepare(tk) ==
    [tk EXCEPT !.calls = tk.calls + 1, !.prepCalls = tk.prepCalls + 1]
TaskRetried(tk) == [tk EXCEPT !.calls = tk.calls + 1]

\* Handler.executeWithRetry, lines 77-81: the run awaits a timer of
\* retryDelayMs after a failed attempt that is not the last one.
TaskSleeps(tk) == [tk EXCEPT !.pc = "sleeping", !.sleeps = tk.sleeps + 1]

\* Handler.executeWithRetry, line 70: is the failed attempt the last one?
IsLastAttemptOffByOne(u) == currentRetry[u] = maxRetries[u]
IsLastAttempt(u) == currentRetry[u] = maxRetries[u] - 1

\* Handler.executeWithRetry, lines 70-81: does the catch block reach the
\* delay?  Not on the last attempt, which returns handleError's result or
\* throws before it.
SleepsAfterEveryFailure(u) == retryDelayMs[u] > 0
SleepsAfterFailure(u) == ~IsLastAttempt(u) /\ retryDelayMs[u] > 0

\* The task after processResults returned action a for output out: the unit's
\* run resolves with a (Handler.executeLifecycle, lines 100-105).
TaskReturnedNoShortCircuit(tk, a) ==
    [tk EXCEPT !.calls = tk.calls + 1,
               !.hist = Append(tk.hist, [d |-> Len(tk.stack), u |-> tk.cur, a |-> a])]
TaskReturned(tk, a) ==
    [tk EXCEPT !.pc = "returned", !.lastAction = a,
               !.procCalls = tk.procCalls + 1,
               !.hist = Append(tk.hist, [d |-> Len(tk.stack), u |-> tk.cur, a |-> a])]

\* The task after an error left executeWithRetry: nothing catches it in
\* executeLifecycle, run or orchestrate, so the whole Pipeline.run rejects.
TaskThrownSwallowed(tk) == [tk EXCEPT !.pc = "returned", !.lastAction = "default"]
TaskThrown(tk) == [tk EXCEPT !.pc = "failed"]

\* ------------------------------------------------------------------- Init
\* The units as constructed: no transition registered (an empty Map), the
\* pipelines' start handlers and the handlers' maxRetries as given to the
\* constructors.  Handlers A and B are interchangeable, so the nested
\* pipeline's start handler is B without loss of generality.
Init ==
    /\ successors = [u \in Units |-> [l \in Labels |-> None]]
    /\ startHandler \in [Pipelines \cup {Template} -> Units]
    /\ \A p \in Pipelines : startHandler[p] = "B"
    /\ \E n \in 1..MaxRetriesBound : maxRetries = [h \in Handlers |-> n]
    /\ retryDelayMs = [h \in Handlers |-> 0]
    /\ params = [u \in Units \cup {Template, Batch} |-> NoParams]
    /\ currentRetry = [h \in Handlers |-> 0]
    /\ ctx = [c \in {Main} \cup Tasks |-> IF c = Main THEN [count |-> 0] ELSE NoParams]
    /\ arr = [c \in {Main} \cup Tasks |-> <<>>]
    /\ task = [t \in Tasks |-> IdleTask]
    /\ drv = [pc |-> "none"]
    /\ bh = [pc |-> "none"]

\* BaseHandler.connectTo, line 66: this.successors.set(action, handler).
ConnectedFirstWins(succ, u, handler, action) ==
    IF succ[u][action] = None THEN [succ EXCEPT ![u][action] = handler] ELSE succ
Connected(succ, u, handler, action) == [succ EXCEPT ![u][action] = handler]

\* What the connection methods return: a unit, or the object `when` creates,
\* which holds the source unit and the label for its `then`.
UnitRef(u) == [kind |-> "unit", unit |-> u, action |-> None]
Transition(u, action) == [kind |-> "transition", unit |-> u, action |-> action]
connectToReturns(u, handler) == handler
chainReturnsTarget(u, handler) == handler
chainReturns(u, handler) == u
pipeReturns(u, handler) == connectToReturns(u, handler)
thenReturns(u, targetHandler) == connectToReturns(u, targetHandler)
onReturns(u, handler) == u

\* The driver record of a test of the connection methods keeps the last call
\* (method, arguments, value returned) and the last object `when` returned.
ApiRecorded(d, op, args, ret) == [d EXCEPT !.op = op, !.args = args, !.ret = ret]

\* While only the graph is under study (pc "graph") the driver record keeps
\* the last connectTo call and the target the label had before it.
ConnectRecorded(d, u, handler, action) ==
    IF d.pc = "graph"
    THEN [d EXCEPT !.call = <<u, handler, action>>, !.replaced = successors[u][action]]
    ELSE IF d.pc = "api"
    THEN ApiRecorded(d, "connectTo", <<u, handler, action>>,
                     UnitRef(connectToReturns(u, handler)))
    ELSE d

\* ---------------------------------------------------------------- actions
\* BaseHandler.connectTo(handler, action), called while the graph is assembled.
connectTo(u, handler, action) ==
    /\ drv.pc \in {"none", "graph", "api"}
    /\ task[1].pc = "idle"
    /\ successors' = Connected(successors, u, handler, action)
    /\ Cardinality(Edges(successors')) <= MaxEdges
    /\ drv' = ConnectRecorded(drv, u, handler, action)
    /\ UNCHANGED <<startHandler, maxRetries, retryDelayMs, params, currentRetry, ctx, arr, task, bh>>

\* BaseHandler.chain(handler, action): connectTo, then `return this`.
chain(u, handler, action) ==
    /\ drv.pc = "api"
    /\ successors' = Connected(successors, u, handler, action)
    /\ Cardinality(Edges(successors')) <= MaxEdges
    /\ drv' = ApiRecorded(drv, "chain", <<u, handler, action>>,
                          UnitRef(chainReturns(u, handler)))
    /\ UNCHANGED <<startHandler, maxRetries, retryDelayMs, params, currentRetry, ctx, arr, task, bh>>

\* BaseHandler.pipe(handler): return this.connectTo(handler, 'default').
pipe(u, handler) ==
    /\ drv.pc = "api"
    /\ successors' = Connected(successors, u, handler, "default")
    /\ Cardinality(Edges(successors')) <= MaxEdges
    /\ drv' = ApiRecorded(drv, "pipe", <<u, handler>>, UnitRef(pipeReturns(u, handler)))
    /\ UNCHANGED <<startHandler, maxRetries, retryDelayMs, params, currentRetry, ctx, arr, task, bh>>

\* BaseHandler.when(action): returns a new object with a `then` method.
when(u, action) ==
    /\ drv.pc = "api"
    /\ drv' = [ApiRecorded(drv, "when", <<u, action>>, Transition(u, action))
                 EXCEPT !.pending = <<Transition(u, action)>>]
    /\ UNCHANGED <<successors, startHandler, maxRetries, retryDelayMs, params,
                   currentRetry, ctx, arr, task, bh>>

\* then(targetHandler) of the object the last `when` returned:
\* return this.connectTo(targetHandler, action).
then(targetHandler) ==
    /\ drv.pc = "api"
    /\ drv.pending # <<>>
    /\ LET w == Head(drv.pending)
       IN /\ successors' = Connected(successors, w.unit, targetHandler, w.action)
          /\ drv' = ApiRecorded(drv, "then", <<targetHandler>>,
                                UnitRef(thenReturns(w.unit, targetHandler)))
    /\ Cardinality(Edges(successors')) <= MaxEdges
    /\ UNCHANGED <<startHandler, maxRetries, retryDelayMs, params, currentRetry, ctx, arr, task, bh>>

\* BaseHandler.on(action, handler): a warning when the label is taken, then
\* connectTo and `return this`.
on(u, action, handler) ==
    /\ drv.pc = "api"
    /\ successors' = Connected(successors, u, handler, action)
    /\ Cardinality(Edges(successors')) <= MaxEdges
    /\ drv' = ApiRecorded(drv, "on", <<u, handler, action>>, UnitRef(onReturns(u, handler)))
    /\ UNCHANGED <<startHandler, maxRetries, retryDelayMs, params, currentRetry, ctx, arr, task, bh>>

\* Pipeline.run(sharedData) called by the user on the top-level pipeline.
StartRun ==
    /\ drv.pc \in {"none", "live"}
    /\ task[1].pc = "idle"
    /\ LET u == startHandler[Template]
           c0 == ObjectAssign(ctx[Main], params[Template])
       IN /\ ctx' = [ctx EXCEPT ![Main] = EnterCtx(u, c0)]
          /\ task' = [task EXCEPT ![1] = TaskEntered(task[1], u, c0)]
          /\ currentRetry' = [currentRetry EXCEPT ![EnterHandler(u)] = 0]
    /\ UNCHANGED <<graph, arr, drv, bh>>

\* handleRequest of the current handler resolves (Handler.executeWithRetry,
\* the try branch), processResults runs and the unit's run resolves.
AttemptSucceeds(t) ==
    /\ task[t].pc = "computing"
    /\ \E a \in Labels :
        LET tk == [task[t] EXCEPT !.attempts = Append(task[t].attempts, "ok")]
            out == OkOutput(tk.inputs)
        IN /\ currentRetry' = [currentRetry EXCEPT ![tk.cur] = 0]
           /\ ctx' = CtxAfterProcess(ctx, tk.ctx, out)
           /\ arr' = ArrAfterProcess(arr, ctx, tk.ctx, tk.cur, out)
           /\ task' = [task EXCEPT ![t] = TaskReturned(tk, a)]
    /\ UNCHANGED <<graph, drv, bh>>

\* handleRequest of the current handler rejects (Handler.executeWithRetry, the
\* catch branch): on the last attempt handleError decides, which throws (the
\* default) or returns a substitute output; otherwise, with a retry delay
\* configured, the run waits for the timer; otherwise the loop goes on to the
\* next attempt, and falls out of the loop when its condition no longer holds.
AttemptFails(t) ==
    /\ task[t].pc = "computing"
    /\ \E handled \in BOOLEAN, a \in Labels :
        LET tk == [task[t] EXCEPT !.attempts = Append(task[t].attempts, "fail")]
            u == tk.cur
        IN IF SleepsAfterFailure(u)
           THEN /\ task' = [task EXCEPT ![t] = TaskSleeps(tk)]
                /\ UNCHANGED <<currentRetry, ctx, arr>>
           ELSE IF IsLastAttempt(u)
           THEN IF handled
                THEN /\ currentRetry' = [currentRetry EXCEPT ![u] = 0]
                     /\ ctx' = CtxAfterProcess(ctx, tk.ctx, FallbackOutput)
                     /\ arr' = ArrAfterProcess(arr, ctx, tk.ctx, u, FallbackOutput)
                     /\ task' = [task EXCEPT ![t] = TaskReturned(
                          [tk EXCEPT !.errCalls = tk.errCalls + 1,
                                     !.errOutcome = "fallback"], a)]
                ELSE /\ task' = [task EXCEPT ![t] = TaskThrown(
                          [tk EXCEPT !.errCalls = tk.errCalls + 1,
                                     !.errOutcome = "threw"])]
                     /\ UNCHANGED <<currentRetry, ctx, arr>>
           ELSE IF currentRetry[u] + 1 < maxRetries[u]
                THEN /\ currentRetry' = [currentRetry EXCEPT ![u] = currentRetry[u] + 1]
                     /\ task' = [task EXCEPT ![t] = TaskRetried(tk)]
                     /\ UNCHANGED <<ctx, arr>>
                ELSE /\ currentRetry' = [currentRetry EXCEPT ![u] = 0]
                     /\ task' = [task EXCEPT ![t] = TaskThrown(tk)]
                     /\ UNCHANGED <<ctx, arr>>
    /\ UNCHANGED <<graph, drv, bh>>

\* The timer of the retry delay fires: the loop's increment and condition,
\* then the next attempt (or the fall out of the loop).
TimerFires(t) ==
    /\ task[t].pc = "sleeping"
    /\ LET tk == task[t]
           u == tk.cur
       IN IF currentRetry[u] + 1 < maxRetries[u]
          THEN /\ currentRetry' = [currentRetry EXCEPT ![u] = currentRetry[u] + 1]
               /\ task' = [task EXCEPT ![t] = [TaskRetried(tk) EXCEPT !.pc = "computing"]]
          ELSE /\ currentRetry' = [currentRetry EXCEPT ![u] = 0]
               /\ task' = [task EXCEPT ![t] = TaskThrown(tk)]
    /\ UNCHANGED <<graph, ctx, arr, drv, bh>>

\* A nested pipeline's orchestrate leaves its loop and returns lastAction
\* (Pipeline.run returns it unchanged): the parent's loop takes it as the
\* action of the nested pipeline, its current unit.
PipelineReturnedDefault(tk) ==
    [tk EXCEPT !.cur = Head(tk.stack),
               !.stack = Tail(tk.stack),
               !.lastAction = "default",
               !.hist = Append(tk.hist,
                   [d |-> Len(tk.stack) - 1, u |-> Head(tk.stack), a |-> "default"])]
PipelineReturned(tk) ==
    [tk EXCEPT !.cur = Head(tk.stack),
               !.stack = Tail(tk.stack),
               !.hist = Append(tk.hist,
                   [d |-> Len(tk.stack) - 1, u |-> Head(tk.stack),
                    a |-> tk.lastAction])]

\* Pipeline.orchestrate, line 109: `while (currentHandler)`, the loop goes on
\* as long as the lookup found a successor.
LoopEndsAfterFirst(nextHandler) == FALSE
LoopGoesOn(nextHandler) == nextHandler # None

\* The traversal is followed for StepLimit units at most: the loop itself has
\* no bound.  Where termination is checked the limit is the number of units
\* the longest traversal without a cycle begins (every unit once by the
\* top-level loop, and every unit but the nested pipeline once inside it), so
\* that it only cuts traversals that go round a cycle.
StepLimit == IF drv.pc = "live" THEN 2 * Cardinality(Units) - 1 ELSE MaxSteps

\* Pipeline.orchestrate after `await currentHandler.run(sharedData)`: look the
\* action up in the current unit's table; run the successor, or leave the loop
\* and return lastAction (to the parent pipeline's loop when nested).
Advance(t) ==
    /\ task[t].pc = "returned"
    /\ LET tk == task[t]
           nextHandler == getNextHandler(tk.cur, tk.lastAction)
       IN IF LoopGoesOn(nextHandler)
          THEN /\ Len(tk.begun) < StepLimit
               /\ ctx' = [ctx EXCEPT ![tk.ctx] = EnterCtx(nextHandler, ctx[tk.ctx])]
               /\ task' = [task EXCEPT ![t] = TaskEntered(tk, nextHandler, ctx[tk.ctx])]
               /\ currentRetry' = [currentRetry EXCEPT ![EnterHandler(nextHandler)] = 0]
          ELSE /\ task' = [task EXCEPT ![t] =
                    IF tk.stack = <<>>
                    THEN [tk EXCEPT !.pc = "done", !.cur = None]
                    ELSE PipelineReturned(tk)]
               /\ UNCHANGED <<ctx, currentRetry>>
    /\ UNCHANGED <<graph, arr, drv, bh>>

Next ==
    \/ \E u \in Units, handler \in Units, action \in Labels : connectTo(u, handler, action)
    \/ StartRun
    \/ \E t \in Tasks : AttemptSucceeds(t)
    \/ \E t \in Tasks : AttemptFails(t)
    \/ \E t \in Tasks : Advance(t)

Spec == Init /\ [][Next]_vars

\* A Pipeline run on a graph built beforehand, any graph of at most
\* MaxLiveEdges transitions.  A call of handleRequest settles, and the loop of orchestrate
\* goes on once the unit it awaits has returned: weak fairness of the
\* attempts' outcomes and of the loop's step.
InitLive ==
    /\ successors \in [Units -> [Labels -> Units \cup {None}]]
    /\ Cardinality(Edges(successors)) <= MaxLiveEdges
    /\ startHandler \in [Pipelines \cup {Template} -> Units]
    /\ \A p \in Pipelines : startHandler[p] = "B"
    /\ maxRetries = [h \in Handlers |-> 2]
    /\ retryDelayMs = [h \in Handlers |-> 0]
    /\ params = [u \in Units \cup {Template, Batch} |-> NoParams]
    /\ currentRetry = [h \in Handlers |-> 0]
    /\ ctx = [c \in {Main} \cup Tasks |-> IF c = Main THEN [count |-> 0] ELSE NoParams]
    /\ arr = [c \in {Main} \cup Tasks |-> <<>>]
    /\ task = [t \in Tasks |-> IdleTask]
    /\ drv = [pc |-> "live"]
    /\ bh = [pc |-> "none"]

NextLive ==
    \/ StartRun
    \/ \E t \in Tasks : AttemptSucceeds(t)
    \/ \E t \in Tasks : AttemptFails(t)
    \/ \E t \in Tasks : Advance(t)

SpecLive ==
    /\ InitLive /\ [][NextLive]_vars
    /\ WF_vars(\E t \in Tasks : AttemptSucceeds(t) \/ AttemptFails(t))
    /\ WF_vars(\E t \in Tasks : Advance(t))


\* ------------------------------------------------- batch orchestrators
\* The template graphs the batch orchestrators are run on: a single handler,
\* a chain of two handlers, a handler followed by a nested pipeline.
NoEdges == [u \in Units |-> [l \in Labels |-> None]]
TemplateGraphs ==
    {NoEdges,
     [NoEdges EXCEPT !["A"]["default"] = "B"],
     [NoEdges EXCEPT !["A"]["default"] = "P1"]}

\* The item lists the caller's context may hold: the items 1..n.
ItemLists == {[i \in 1..n |-> i] : n \in 0..MaxRuns}

\* Names of settings a parameter set may carry besides the item.
ParamKeys == <<"p1", "p2", "p3">>

\* The model orchestrator's prepareBatchParams: one parameter set per item,
\* { a: item }; when the context names per-item settings (keys), the i-th
\* parameter set also carries the i-th of them, { a: item, [keys[i]]: item }.
prepareBatchParams(c) ==
    [i \in 1..Len(c["items"]) |->
        IF "keys" \in DOMAIN c
        THEN ObjectAssign([a |-> c["items"][i]],
                          [k \in {c["keys"][i]} |-> c["items"][i]])
        ELSE [a |-> c["items"][i]]]

\* The model orchestrator's processBatchResults: records the number of
\* parameter sets; the action it returns is "completed".
processBatchResults(c, inputs) == ObjectAssign(c, [processedCount |-> Len(inputs)])

\* executePipelineWithParams: the parameters of the pipeline instance,
\* { ...this.getParams(), ...params }.
MergedParams(inputs, k) == ObjectAssign(params[Batch], inputs[k])

\* BatchPipeline.executePipelineWithParams, line 149: the context object the
\* pipeline instance of run k is run on, this.currentSharedData.
BatchRunAddrCopy(d, k) == k
BatchRunAddr(d, k) == Head(d.current)

\* ParallelBatchPipeline.createIsolatedSharedData: JSON.parse(JSON.stringify(c))
\* is a new object with c's keys; a number is copied, an array becomes a new
\* array object (the one at address t) with the same elements.
IsolatedPathRefShallow(c, t) == c["path"]
IsolatedPathRef(c, t) == t
createIsolatedSharedData(c, t) ==
    [k \in DOMAIN c |-> IF k = "path" THEN IsolatedPathRef(c, t) ELSE c[k]]

\* ParallelBatchPipeline.executePipelineWithParams, line 409: has
\* `await pipelineInstance.run(isolatedSharedData)` resolved?
RunResolvedEarly(tk) == tk.pc \in {"done", "returned"}
RunResolved(tk) == tk.pc = "done"

\* ParallelBatchPipeline.handleRequest, line 372: `await Promise.all(promises)`
\* resolves when every executePipelineWithParams has resolved.
WaveJoinedAny(d) == \E k \in 1..Len(d.inputs) : task[k].pc = "merged"
WaveJoined(d) == \A k \in 1..Len(d.inputs) : task[k].pc = "merged"

\* executeLifecycle of the two batch orchestrators when handleRequest has
\* resolved: processResults has run and returned processBatchResults' label,
\* the finally has cleared currentSharedData.
LifecycleResolved(d) ==
    [d EXCEPT !.pc = "done", !.current = <<>>, !.action = "completed",
              !.procCalls = d.procCalls + 1]

\* executeLifecycle when handleRequest has rejected: processResults is
\* skipped, the finally clears currentSharedData, the error propagates.
LifecycleRejectedFinalizes(d) ==
    [d EXCEPT !.pc = "failed", !.current = <<>>, !.action = "completed",
              !.procCalls = d.procCalls + 1]
LifecycleRejected(d) == [d EXCEPT !.pc = "failed", !.current = <<>>]

\* currentSharedData is <<>> while undefined, <<address>> while set.
IdleDrv(kind) ==
    [pc |-> "idle", kind |-> kind, current |-> <<>>, inputs |-> <<>>, idx |-> 0,
     action |-> None, procCalls |-> 0, snap |-> NoParams, snapArr |-> <<>>]

InitTemplate ==
    /\ successors \in TemplateGraphs
    /\ startHandler = [p \in Pipelines \cup {Template} |-> IF p = Template THEN "A" ELSE "B"]
    /\ params = [u \in Units \cup {Template, Batch} |-> NoParams]
    /\ retryDelayMs = [h \in Handlers |-> 0]
    /\ currentRetry = [h \in Handlers |-> 0]
    /\ task = [t \in Tasks |-> IdleTask]
    /\ bh = [pc |-> "none"]

InitBatch ==
    /\ InitTemplate
    /\ \E n \in 1..MaxRetriesBound : maxRetries = [h \in Handlers |-> n]
    /\ \E items \in ItemLists :
         ctx = [c \in {Main} \cup Tasks |->
                   IF c = Main THEN [count |-> 0, items |-> items] ELSE NoParams]
    /\ arr = [c \in {Main} \cup Tasks |-> <<>>]
    /\ drv = IdleDrv("batch")

\* The handlers of the parallel template keep the constructor's default,
\* maxRetries = 1; the caller's context has its array field, empty, or not.
InitPar ==
    /\ InitTemplate
    /\ maxRetries = [h \in Handlers |-> 1]
    /\ \E items \in ItemLists, hasPath \in BOOLEAN :
         ctx = [c \in {Main} \cup Tasks |->
                   IF c = Main
                   THEN IF hasPath THEN [count |-> 0, items |-> items, path |-> Main]
                        ELSE [count |-> 0, items |-> items]
                   ELSE NoParams]
    /\ arr = [c \in {Main} \cup Tasks |-> <<>>]
    /\ drv = IdleDrv("parallel")

\* BatchPipeline.run(sharedData): BaseHandler.run and executeLifecycle up to the
\* first await, that is handleRequest's first executePipelineWithParams.
StartBatch ==
    /\ drv.pc = "idle" /\ drv.kind = "batch"
    /\ LET main1 == ObjectAssign(ctx[Main], params[Batch])
           inputs == prepareBatchParams(main1)
           d1 == [drv EXCEPT !.pc = "running", !.current = <<Main>>, !.inputs = inputs]
       IN IF inputs = <<>>
          THEN /\ drv' = d1
               /\ ctx' = [ctx EXCEPT ![Main] = main1]
               /\ UNCHANGED <<task, currentRetry>>
          ELSE LET heap1 == [ctx EXCEPT ![Main] = main1]
                   addr == BatchRunAddr(d1, 1)
                   c0 == ObjectAssign(heap1[addr], MergedParams(inputs, 1))
               IN /\ drv' = [d1 EXCEPT !.idx = 1]
                  /\ ctx' = [heap1 EXCEPT ![addr] = EnterCtx(startHandler[Template], c0)]
                  /\ task' = [task EXCEPT ![1] =
                        TaskEntered([task[1] EXCEPT !.ctx = addr], startHandler[Template], c0)]
                  /\ currentRetry' =
                        [currentRetry EXCEPT ![EnterHandler(startHandler[Template])] = 0]
    /\ UNCHANGED <<graph, arr, bh>>

\* BatchPipeline.handleRequest, line 116: the loop passes
\* `await this.executePipelineWithParams(params)` when the pipeline run of the
\* parameter set has resolved; a rejection leaves the loop.
RunNotAwaited(tk) == tk.pc # "idle"
RunSettled(tk) == tk.pc \in {"done", "failed"}
RunAwaited(tk) == tk.pc = "done"

\* BatchPipeline.handleRequest: the pipeline run of parameter set idx has
\* resolved and the loop goes on to executePipelineWithParams of the next one.
BatchContinue ==
    /\ drv.pc = "running" /\ drv.kind = "batch"
    /\ drv.idx >= 1 /\ drv.idx < Len(drv.inputs)
    /\ RunAwaited(task[drv.idx])
    /\ LET k == drv.idx + 1
           addr == BatchRunAddr(drv, k)
           c0 == ObjectAssign(ctx[addr], MergedParams(drv.inputs, k))
       IN /\ drv' = [drv EXCEPT !.idx = k]
          /\ ctx' = [ctx EXCEPT ![addr] = EnterCtx(startHandler[Template], c0)]
          /\ task' = [task EXCEPT ![k] =
                TaskEntered([task[k] EXCEPT !.ctx = addr], startHandler[Template], c0)]
          /\ currentRetry' =
                [currentRetry EXCEPT ![EnterHandler(startHandler[Template])] = 0]
    /\ UNCHANGED <<graph, arr, bh>>

\* handleRequest has resolved: processResults (processBatchResults), then the
\* finally of executeLifecycle clears currentSharedData.
BatchFinish ==
    /\ drv.pc = "running" /\ drv.kind = "batch"
    /\ drv.idx = Len(drv.inputs)
    /\ drv.idx >= 1 => RunAwaited(task[drv.idx])
    /\ ctx' = [ctx EXCEPT ![Head(drv.current)] =
                 processBatchResults(ctx[Head(drv.current)], drv.inputs)]
    /\ drv' = LifecycleResolved(drv)
    /\ UNCHANGED <<graph, currentRetry, arr, task, bh>>

\* A pipeline run rejected: handleRequest rejects, processResults is skipped,
\* the finally clears currentSharedData and run rejects.
BatchFail ==
    /\ drv.pc = "running" /\ drv.kind = "batch"
    /\ drv.idx >= 1
    /\ task[drv.idx].pc = "failed"
    /\ drv' = LifecycleRejected(drv)
    /\ UNCHANGED <<graph, currentRetry, ctx, arr, task, bh>>

\* ParallelBatchPipeline.run(sharedData): BaseHandler.run and executeLifecycle
\* up to `await Promise.all(promises)`: paramSets.map has called
\* executePipelineWithParams for every parameter set, each up to its first
\* await: the isolated copy is made and the start handler's handleRequest called.
StartParallel ==
    /\ drv.pc = "idle" /\ drv.kind = "parallel"
    /\ LET main1 == ObjectAssign(ctx[Main], params[Batch])
           inputs == prepareBatchParams(main1)
           runs == 1..Len(inputs)
           mainArr == IF "path" \in DOMAIN main1 THEN arr[main1["path"]] ELSE <<>>
           c0(k) == ObjectAssign(createIsolatedSharedData(main1, k), MergedParams(inputs, k))
       IN /\ drv' = [drv EXCEPT !.pc = "running", !.current = <<Main>>, !.inputs = inputs,
                                !.idx = Len(inputs), !.snap = main1, !.snapArr = mainArr]
          /\ ctx' = [c \in {Main} \cup Tasks |->
                        IF c = Main THEN main1
                        ELSE IF c \in runs THEN EnterCtx(startHandler[Template], c0(c))
                        ELSE ctx[c]]
          /\ arr' = [c \in {Main} \cup Tasks |->
                        IF c \in runs /\ "path" \in DOMAIN main1 THEN mainArr ELSE arr[c]]
          /\ task' = [k \in Tasks |->
                        IF k \in runs
                        THEN TaskEntered([task[k] EXCEPT !.ctx = k], startHandler[Template], c0(k))
                        ELSE task[k]]
          /\ currentRetry' =
                IF inputs = <<>> THEN currentRetry
                ELSE [currentRetry EXCEPT ![EnterHandler(startHandler[Template])] = 0]
    /\ UNCHANGED <<graph, bh>>

\* ParallelBatchPipeline.executePipelineWithParams after the pipeline run of
\* task t has resolved: mergeSharedDataResults, whose getCurrentSharedData
\* throws once currentSharedData has been cleared.
MergeBack(t) ==
    /\ drv.kind = "parallel" /\ drv.pc # "idle"
    /\ RunResolved(task[t])
    /\ IF drv.current = <<>>
       THEN /\ task' = [task EXCEPT ![t].pc = "failed"]
            /\ UNCHANGED ctx
       ELSE /\ ctx' = [ctx EXCEPT ![Head(drv.current)] =
                         ObjectAssign(ctx[Head(drv.current)], ctx[task[t].ctx])]
            /\ task' = [task EXCEPT ![t].pc = "merged", ![t].merges = task[t].merges + 1]
    /\ UNCHANGED <<graph, currentRetry, arr, drv, bh>>

\* Promise.all has resolved: processResults (processBatchResults), then the
\* finally of executeLifecycle clears currentSharedData.
ParallelFinish ==
    /\ drv.pc = "running" /\ drv.kind = "parallel"
    /\ WaveJoined(drv)
    /\ ctx' = [ctx EXCEPT ![Head(drv.current)] =
                 processBatchResults(ctx[Head(drv.current)], drv.inputs)]
    /\ drv' = LifecycleResolved(drv)
    /\ UNCHANGED <<graph, currentRetry, arr, task, bh>>

\* Promise.all rejects as soon as one execution has rejected: handleRequest
\* rejects, the finally clears currentSharedData and run rejects, while the
\* other executions go on.
ParallelFail ==
    /\ drv.pc = "running" /\ drv.kind = "parallel"
    /\ \E k \in 1..Len(drv.inputs) : task[k].pc = "failed"
    /\ drv' = LifecycleRejected(drv)
    /\ UNCHANGED <<graph, currentRetry, ctx, arr, task, bh>>

NextBatch ==
    \/ StartBatch
    \/ BatchContinue
    \/ BatchFinish
    \/ BatchFail
    \/ \E t \in Tasks : AttemptSucceeds(t)
    \/ \E t \in Tasks : AttemptFails(t)
    \/ \E t \in Tasks : Advance(t)

SpecBatch == InitBatch /\ [][NextBatch]_vars

NextPar ==
    \/ StartParallel
    \/ \E t \in Tasks : MergeBack(t)
    \/ ParallelFinish
    \/ ParallelFail
    \/ \E t \in Tasks : AttemptSucceeds(t)
    \/ \E t \in Tasks : AttemptFails(t)
    \/ \E t \in Tasks : Advance(t)

SpecPar == InitPar /\ [][NextPar]_vars

\* A ParallelBatchPipeline over a template whose handlers retry: every run of
\* the wave goes through the template's own handler instances
\* (createPipelineInstance passes the template's start handler to the new
\* Pipeline), so the runs share each handler's currentRetry.
InitParRetry ==
    /\ InitTemplate
    /\ \E n \in 1..MaxRetriesBound : maxRetries = [h \in Handlers |-> n]
    /\ \E items \in ItemLists :
         ctx = [c \in {Main} \cup Tasks |->
                   IF c = Main THEN [count |-> 0, items |-> items] ELSE NoParams]
    /\ arr = [c \in {Main} \cup Tasks |-> <<>>]
    /\ drv = IdleDrv("parallel")

SpecParRetry == InitParRetry /\ [][NextPar]_vars

\* A ParallelBatchPipeline run on a context that already holds `best`, which
\* only the runs with a larger input assign.
InitBest ==
    /\ InitTemplate
    /\ maxRetries = [h \in Handlers |-> 1]
    /\ \E items \in ItemLists, best \in 0..MaxRuns :
         ctx = [c \in {Main} \cup Tasks |->
                   IF c = Main THEN [count |-> 0, items |-> items, best |-> best]
                   ELSE NoParams]
    /\ arr = [c \in {Main} \cup Tasks |-> <<>>]
    /\ drv = IdleDrv("parallel")

SpecBest == InitBest /\ [][NextPar]_vars

\* The connection API alone: any sequence of connectTo calls on the units.
InitGraph ==
    /\ InitTemplate
    /\ successors = NoEdges
    /\ maxRetries = [h \in Handlers |-> 1]
    /\ ctx = [c \in {Main} \cup Tasks |-> NoParams]
    /\ arr = [c \in {Main} \cup Tasks |-> <<>>]
    /\ drv = [pc |-> "graph", call |-> <<>>, replaced |-> None]
NextGraph == \E u, handler \in Units, action \in Labels : connectTo(u, handler, action)
SpecGraph == InitGraph /\ [][NextGraph]_vars

\* The connection methods: any sequence of calls on the handlers, with any
\* unit as the target.
InitApi ==
    /\ InitTemplate
    /\ successors = NoEdges
    /\ maxRetries = [h \in Handlers |-> 1]
    /\ ctx = [c \in {Main} \cup Tasks |-> NoParams]
    /\ arr = [c \in {Main} \cup Tasks |-> <<>>]
    /\ drv = [pc |-> "api", op |-> None, args |-> <<>>, ret |-> UnitRef(None),
              pending |-> <<>>]
NextApi ==
    \/ \E u \in Handlers, handler \in Units, action \in Labels : connectTo(u, handler, action)
    \/ \E u \in Handlers, handler \in Units, action \in Labels : chain(u, handler, action)
    \/ \E u \in Handlers, handler \in Units : pipe(u, handler)
    \/ \E u \in Handlers, action \in Labels : when(u, action)
    \/ \E targetHandler \in Units : then(targetHandler)
    \/ \E u \in Handlers, handler \in Units, action \in Labels : on(u, action, handler)
SpecApi == InitApi /\ [][NextApi]_vars

\* Both batch orchestrators: a run of either.
InitOrch == InitBatch \/ InitPar
NextOrch == NextBatch \/ NextPar
SpecOrch == InitOrch /\ [][NextOrch]_vars

\* A pipeline of handlers constructed with a retry delay (retryDelayMs 100)
\* or without one, run once.
RetryDelays == {0, 100}
InitDelay ==
    /\ successors \in TemplateGraphs
    /\ startHandler = [p \in Pipelines \cup {Template} |-> IF p = Template THEN "A" ELSE "B"]
    /\ \E n \in 1..MaxRetriesBound : maxRetries = [h \in Handlers |-> n]
    /\ \E d \in RetryDelays : retryDelayMs = [h \in Handlers |-> d]
    /\ params = [u \in Units \cup {Template, Batch} |-> NoParams]
    /\ currentRetry = [h \in Handlers |-> 0]
    /\ ctx = [c \in {Main} \cup Tasks |-> IF c = Main THEN [count |-> 0] ELSE NoParams]
    /\ arr = [c \in {Main} \cup Tasks |-> <<>>]
    /\ task = [t \in Tasks |-> IdleTask]
    /\ drv = [pc |-> "none"]
    /\ bh = [pc |-> "none"]
NextDelay ==
    \/ StartRun
    \/ \E t \in Tasks : AttemptSucceeds(t)
    \/ \E t \in Tasks : AttemptFails(t)
    \/ \E t \in Tasks : TimerFires(t)
    \/ \E t \in Tasks : Advance(t)
SpecDelay == InitDelay /\ [][NextDelay]_vars

\* Pipeline.handleRequest(inputs): the body throws, so the promise the async
\* method returns is rejected with that error.
PipelineHandleRequestResolves(inputs) == [kind |-> "resolved", value |-> "default"]
PipelineHandleRequest(inputs) ==
    [kind |-> "rejected",
     value |-> "Pipeline.handleRequest() should not be called directly. Use run() instead."]

\* A caller invokes handleRequest of pipeline p directly, at any moment; the
\* driver record keeps the pipeline and the outcome of the last such call.
handleRequest(p) ==
    /\ drv.pc = "none"
    /\ drv' = [drv EXCEPT !.direct = <<[unit |-> p, outcome |-> PipelineHandleRequest(0)]>>]
    /\ UNCHANGED <<graph, currentRetry, ctx, arr, task, bh>>

\* A pipeline that is run once and whose handleRequest, or that of its nested
\* pipeline, is also called directly.
InitMisuse ==
    /\ InitTemplate
    /\ \E n \in 1..MaxRetriesBound : maxRetries = [h \in Handlers |-> n]
    /\ ctx = [c \in {Main} \cup Tasks |-> IF c = Main THEN [count |-> 0] ELSE NoParams]
    /\ arr = [c \in {Main} \cup Tasks |-> <<>>]
    /\ drv = [pc |-> "none", direct |-> <<>>]
NextMisuse ==
    \/ StartRun
    \/ \E t \in Tasks : AttemptSucceeds(t)
    \/ \E t \in Tasks : AttemptFails(t)
    \/ \E t \in Tasks : Advance(t)
    \/ \E p \in Pipelines \cup {Template} : handleRequest(p)
SpecMisuse == InitMisuse /\ [][NextMisuse]_vars

\* A BatchPipeline whose units and itself have been given parameters with
\* setParams, some under keys the context or the parameter sets also use,
\* and whose parameter sets each carry a setting of their own.
HandlerParamSets == {NoParams, [a |-> 9], [count |-> 5]}
PipelineParamSets == {NoParams, [a |-> 8]}
BatchParamSets == {NoParams, [items |-> <<2, 1>>], [items |-> <<>>]}
InitParams ==
    /\ successors \in TemplateGraphs
    /\ startHandler = [p \in Pipelines \cup {Template} |-> IF p = Template THEN "A" ELSE "B"]
    /\ \E pa \in HandlerParamSets, pb \in HandlerParamSets,
          pp \in PipelineParamSets, pq \in BatchParamSets :
         params = [u \in Units \cup {Template, Batch} |->
                      IF u = "A" THEN pa ELSE IF u = "B" THEN pb
                      ELSE IF u \in Pipelines THEN pp
                      ELSE IF u = Batch THEN pq ELSE NoParams]
    /\ maxRetries = [h \in Handlers |-> 1]
    /\ retryDelayMs = [h \in Handlers |-> 0]
    /\ currentRetry = [h \in Handlers |-> 0]
    /\ \E items \in ItemLists :
         ctx = [c \in {Main} \cup Tasks |->
                   IF c = Main THEN [count |-> 0, items |-> items, keys |-> ParamKeys]
                   ELSE NoParams]
    /\ arr = [c \in {Main} \cup Tasks |-> <<>>]
    /\ task = [t \in Tasks |-> IdleTask]
    /\ drv = IdleDrv("batch")
    /\ bh = [pc |-> "none"]
SpecParams == InitParams /\ [][NextBatch]_vars


\* ------------------------------------------------- the retry-aware BatchHandler
\* The items of a batch are 1..n.  st[i] is where item i is: "pending" (not
\* passed to handleSingleItem yet), "running" (processItemWithRetries in
\* flight), "ok" / "fallback" (it resolved, with handleSingleItem's output or
\* handleItemError's), "failed" (it rejected).
Min(a, b) == IF a < b THEN a ELSE b

\* BatchHandler.chunkArray(array, chunkSize), on the items 1..n.
chunkArrayOversize(n, chunkSize) ==
    [k \in 1..((n + chunkSize) \div (chunkSize + 1)) |->
        [j \in 1..Min(chunkSize + 1, n - (k - 1) * (chunkSize + 1)) |->
            (k - 1) * (chunkSize + 1) + j]]
chunkArray(n, chunkSize) ==
    [k \in 1..((n + chunkSize - 1) \div chunkSize) |->
        [j \in 1..Min(chunkSize, n - (k - 1) * chunkSize) |-> (k - 1) * chunkSize + j]]

\* The BatchResult returned by processSequentially and processConcurrently.
BatchResultOfProcessed(results, errors, n) ==
    [results |-> results, errors |-> errors, successful |-> Len(results),
     failed |-> Len(errors), totalItems |-> Len(results) + Len(errors)]
BatchResultOf(results, errors, n) ==
    [results |-> results, errors |-> errors, successful |-> Len(results),
     failed |-> Len(errors), totalItems |-> n]

\* `if (this.config.failFast)` after an item's error has been recorded.
FailFastIgnored(b) == FALSE
FailFastStops(b) == b.failFast

\* The output of item i once settled, as pushed onto results.
ItemOutput(b, i) ==
    [item |-> i, kind |-> IF b.st[i] = "fallback" THEN "fallback" ELSE "processed"]

\* The array Promise.all resolves with holds the promises' values in the
\* order of the promises passed to it, that is of `items`, whatever the order
\* in which they settled.
PromiseAllBySettling(b, items) ==
    LET InItems(i) == \E j \in 1..Len(items) : items[j] = i
    IN SelectSeq(b.order, InItems)
PromiseAll(b, items) == [j \in 1..Len(items) |-> items[j]]

\* An observed run keeps, in `order`, the items of the promises last passed
\* to Promise.all, in the order in which they settled.
SettledRecorded(b, i) ==
    IF "order" \in DOMAIN b THEN [b EXCEPT !.order = Append(b.order, i)] ELSE b
Observed(b) == IF "order" \in DOMAIN b THEN [b EXCEPT !.order = <<>>] ELSE b

\* processItemWithRetries(item) is called for the items of `items`, each up
\* to its first await: handleSingleItem is called, attempt = 1.
Dispatched(b, items) ==
    [Observed(b) EXCEPT !.st = [i \in 1..b.n |-> IF i \in items THEN "running" ELSE b.st[i]],
              !.attempt = [i \in 1..b.n |-> IF i \in items THEN 1 ELSE b.attempt[i]],
              !.calls = [i \in 1..b.n |-> IF i \in items THEN b.calls[i] + 1 ELSE b.calls[i]]]

\* handleRequest resolves with the BatchResult.
Resolved(b) ==
    [b EXCEPT !.pc = "resolved", !.result = BatchResultOf(b.results, b.errors, b.n)]

\* processSequentially: the loop goes on after item i, or ends.
SeqNext(b, i) ==
    IF i < b.n THEN Dispatched([b EXCEPT !.cur = i + 1], {i + 1}) ELSE Resolved(b)

\* processSequentially, lines 217-218: item i resolved.
SeqItemSucceeded(b, i) ==
    SeqNext([b EXCEPT !.results = Append(b.results, ItemOutput(b, i))], i)

\* processSequentially, lines 219-225: item i rejected; the error is caught and
\* recorded, and the loop breaks under failFast.
SeqItemFailedThrows(b, i) == [b EXCEPT !.pc = "rejected"]
SeqItemFailed(b, i) ==
    LET b1 == [b EXCEPT !.errors = Append(b.errors, i)]
    IN IF FailFastStops(b1) THEN Resolved(b1) ELSE SeqNext(b1, i)

\* processConcurrently, lines 255-258: the position in chunkResults of the
\* first entry with success false, the first one the loop meets; 0 if none.
LastFailure(b, chunk) ==
    LET failedAt == {j \in 1..Len(chunk) : b.st[chunk[j]] = "failed"}
    IN IF failedAt = {} THEN 0 ELSE CHOOSE j \in failedAt : \A k \in failedAt : j >= k
FirstFailure(b, chunk) ==
    LET failedAt == {j \in 1..Len(chunk) : b.st[chunk[j]] = "failed"}
    IN IF failedAt = {} THEN 0 ELSE CHOOSE j \in failedAt : \A k \in failedAt : j <= k

\* processConcurrently, lines 255-270: the loop over chunkResults, in the
\* chunk's order, returning at the first failure under failFast.
JoinedChunk(b, promised) ==
    LET chunk == PromiseAll(b, promised)
        firstFail == FirstFailure(b, chunk)
        stop == FailFastStops(b) /\ firstFail > 0
        taken == IF stop THEN SubSeq(chunk, 1, firstFail) ELSE chunk
        Succeeded(i) == b.st[i] \in {"ok", "fallback"}
        Failed(i) == b.st[i] = "failed"
        okItems == SelectSeq(taken, Succeeded)
        b1 == [b EXCEPT !.results = b.results \o [j \in 1..Len(okItems) |-> ItemOutput(b, okItems[j])],
                        !.errors = b.errors \o SelectSeq(taken, Failed)]
        chunks == chunkArray(b.n, b.conc)
    IN IF stop \/ b.cur = Len(chunks) THEN Resolved(b1)
       ELSE Dispatched([b1 EXCEPT !.cur = b.cur + 1], {chunks[b.cur + 1][j] : j \in 1..Len(chunks[b.cur + 1])})

\* TestBatchHandler.processBatchResults: the label.
BatchLabel(result) ==
    IF result.failed = 0 THEN "all_success"
    ELSE IF result.successful = 0 THEN "all_failed"
    ELSE "partial_success"

NoResult == [results |-> <<>>, errors |-> <<>>, successful |-> 0, failed |-> 0, totalItems |-> 0]

IdleBatchHandler(n, conc, failFast, retries) ==
    [pc |-> "idle", kind |-> "batch", n |-> n, conc |-> conc, failFast |-> failFast,
     maxRetries |-> retries, cur |-> 0,
     st |-> [i \in 1..n |-> "pending"], attempt |-> [i \in 1..n |-> 0],
     calls |-> [i \in 1..n |-> 0], errCalls |-> [i \in 1..n |-> 0],
     results |-> <<>>, errors |-> <<>>, result |-> NoResult,
     prepCalls |-> 0, procCalls |-> 0, action |-> None]

InitRest ==
    /\ successors = NoEdges
    /\ startHandler = [p \in Pipelines \cup {Template} |-> IF p = Template THEN "A" ELSE "B"]
    /\ maxRetries = [h \in Handlers |-> 1]
    /\ retryDelayMs = [h \in Handlers |-> 0]
    /\ params = [u \in Units \cup {Template, Batch} |-> NoParams]
    /\ currentRetry = [h \in Handlers |-> 0]
    /\ ctx = [c \in {Main} \cup Tasks |-> NoParams]
    /\ arr = [c \in {Main} \cup Tasks |-> <<>>]
    /\ task = [t \in Tasks |-> IdleTask]
    /\ drv = [pc |-> "none"]

InitBH ==
    /\ InitRest
    /\ \E n \in 0..MaxItems, conc \in 1..MaxConc, failFast \in BOOLEAN,
          retries \in 1..MaxItemRetries :
         bh = IdleBatchHandler(n, conc, failFast, retries)

rest == <<successors, startHandler, maxRetries, retryDelayMs, currentRetry, params, task, drv>>

\* BatchHandler.run(sharedData): BaseHandler.run, executeLifecycle's
\* prepareInputs, and handleRequest up to its first await: the empty batch
\* resolves at once, else the first item or the whole first chunk is started.
StartBatchHandler ==
    /\ bh.pc = "idle" /\ bh.kind = "batch"
    /\ LET b == [bh EXCEPT !.pc = "running", !.prepCalls = bh.prepCalls + 1]
       IN bh' = IF b.n = 0 THEN Resolved(b)
                ELSE IF b.conc = 1 THEN Dispatched([b EXCEPT !.cur = 1], {1})
                ELSE LET first == chunkArray(b.n, b.conc)[1]
                     IN Dispatched([b EXCEPT !.cur = 1], {first[j] : j \in 1..Len(first)})
    /\ UNCHANGED <<rest, ctx, arr>>

\* processItemWithRetries, line 288: handleSingleItem(item) resolved.  In
\* sequential mode processSequentially goes on from its await.
ItemSucceeds(i) ==
    /\ bh.pc = "running" /\ bh.kind = "batch"
    /\ i \in 1..bh.n /\ bh.st[i] = "running"
    /\ LET b == SettledRecorded([bh EXCEPT !.st[i] = "ok"], i)
       IN bh' = IF b.conc = 1 THEN SeqItemSucceeded(b, i) ELSE b
    /\ UNCHANGED <<rest, ctx, arr>>

\* processItemWithRetries, lines 289-305: handleSingleItem(item) rejected.
\* Before the last attempt the item is tried again; after it handleItemError
\* returns a fallback output or rethrows.
ItemFails(i) ==
    /\ bh.pc = "running" /\ bh.kind = "batch"
    /\ i \in 1..bh.n /\ bh.st[i] = "running"
    /\ IF bh.attempt[i] < bh.maxRetries
       THEN bh' = [bh EXCEPT !.attempt[i] = bh.attempt[i] + 1, !.calls[i] = bh.calls[i] + 1]
       ELSE \E handled \in BOOLEAN :
              LET b == SettledRecorded(
                         [bh EXCEPT !.errCalls[i] = bh.errCalls[i] + 1,
                                    !.st[i] = IF handled THEN "fallback" ELSE "failed"], i)
              IN bh' = IF b.conc > 1 THEN b
                       ELSE IF handled THEN SeqItemSucceeded(b, i)
                       ELSE SeqItemFailed(b, i)
    /\ UNCHANGED <<rest, ctx, arr>>

\* processConcurrently, lines 244-253: every promise of the chunk catches its
\* item's rejection, so Promise.all resolves once all of them have settled,
\* and never earlier.
ChunkRacedToFailure(b, chunk) ==
    \/ \A j \in 1..Len(chunk) : b.st[chunk[j]] \in {"ok", "fallback", "failed"}
    \/ \E j \in 1..Len(chunk) : b.st[chunk[j]] = "failed"
ChunkSettled(b, chunk) ==
    \A j \in 1..Len(chunk) : b.st[chunk[j]] \in {"ok", "fallback", "failed"}

\* processConcurrently, lines 253-271: Promise.all of the current chunk has
\* resolved; its outcomes are recorded and the next chunk is started, or the
\* BatchResult returned.
ChunkJoin ==
    /\ bh.pc = "running" /\ bh.kind = "batch" /\ bh.conc > 1
    /\ LET chunk == chunkArray(bh.n, bh.conc)[bh.cur]
       IN /\ ChunkSettled(bh, chunk)
          /\ bh' = JoinedChunk(bh, chunk)
    /\ UNCHANGED <<rest, ctx, arr>>

\* executeLifecycle after handleRequest has resolved: processResults, that is
\* TestBatchHandler.processBatchResults, whose label run returns.
FinishBatchHandler ==
    /\ bh.pc = "resolved" /\ bh.kind = "batch"
    /\ ctx' = [ctx EXCEPT ![Main] = ObjectAssign(ctx[Main],
                 [results |-> Main, processedCount |-> bh.result.successful,
                  errorCount |-> bh.result.failed])]
    /\ arr' = [arr EXCEPT ![Main] = bh.result.results]
    /\ bh' = [bh EXCEPT !.pc = "done", !.procCalls = bh.procCalls + 1,
                        !.action = BatchLabel(bh.result)]
    /\ UNCHANGED rest

NextBH ==
    \/ StartBatchHandler
    \/ \E i \in 1..MaxItems : ItemSucceeds(i)
    \/ \E i \in 1..MaxItems : ItemFails(i)
    \/ ChunkJoin
    \/ FinishBatchHandler

SpecBH == InitBH /\ [][NextBH]_vars


\* ------------------------------------- chunkArray as the loop it is
\* The constructor stores config.maxConcurrency as given, without any check
\* (lines 119-128), so it may be zero or negative; Infinity is documented.
\* Infinity is modelled by a number larger than any batch.
Infinity == MaxItems + MaxConc + 1
ConcValues == (-1 .. MaxConc) \cup {Infinity}

\* Array.prototype.slice(start, end) on the items 1..n: a negative index
\* counts from the end, an index beyond the array is clamped.
slice(n, start, end) ==
    LET rel(k) == IF k < 0 THEN (IF n + k < 0 THEN 0 ELSE n + k) ELSE Min(k, n)
    IN [j \in 1..(rel(end) - rel(start)) |-> rel(start) + j]

InitChunk ==
    /\ InitRest
    /\ \E n \in 1..MaxItems, conc \in ConcValues, failFast \in BOOLEAN :
         bh = IdleBatchHandler(n, conc, failFast, 1) @@ [ci |-> 0, chunks |-> <<>>]

\* BatchHandler.run(sharedData) up to the loop of chunkArray (or, with
\* maxConcurrency === 1, up to the first item of processSequentially).
StartChunking ==
    /\ bh.pc = "idle" /\ bh.kind = "batch" /\ "ci" \in DOMAIN bh
    /\ LET b == [bh EXCEPT !.pc = "running", !.prepCalls = bh.prepCalls + 1]
       IN bh' = IF b.n = 0 THEN Resolved(b)
                ELSE IF b.conc = 1 THEN Dispatched([b EXCEPT !.cur = 1], {1})
                ELSE [b EXCEPT !.pc = "chunking", !.ci = 0]
    /\ UNCHANGED <<rest, ctx, arr>>

\* chunkArray, lines 315-317: one iteration of
\* `for (let i = 0; i < array.length; i += chunkSize)`.  The loop is followed
\* for MaxItems + 1 chunks, one more than any chunking of the items needs.
ChunkLoopStep ==
    /\ bh.pc = "chunking" /\ bh.ci < bh.n
    /\ Len(bh.chunks) <= MaxItems
    /\ bh' = [bh EXCEPT !.chunks = Append(bh.chunks, slice(bh.n, bh.ci, bh.ci + bh.conc)),
                        !.ci = bh.ci + bh.conc]
    /\ UNCHANGED <<rest, ctx, arr>>

\* chunkArray returns; processConcurrently starts the items of the first chunk.
ChunkLoopExit ==
    /\ bh.pc = "chunking" /\ bh.ci >= bh.n
    /\ LET first == bh.chunks[1]
       IN bh' = Dispatched([bh EXCEPT !.pc = "running", !.cur = 1],
                           {first[j] : j \in 1..Len(first)})
    /\ UNCHANGED <<rest, ctx, arr>>

NextChunk ==
    \/ StartChunking
    \/ ChunkLoopStep
    \/ ChunkLoopExit
    \/ \E i \in 1..MaxItems : ItemSucceeds(i)
    \/ \E i \in 1..MaxItems : ItemFails(i)
    \/ ChunkJoin
    \/ FinishBatchHandler

\* The loop of chunkArray runs on, every per-item computation settles, and
\* the awaiting code goes on once what it awaits has settled.
SpecChunk ==
    /\ InitChunk /\ [][NextChunk]_vars
    /\ WF_vars(ChunkLoopStep \/ ChunkLoopExit)
    /\ \A i \in 1..MaxItems : WF_vars(ItemSucceeds(i) \/ ItemFails(i))
    /\ WF_vars(ChunkJoin)
    /\ WF_vars(FinishBatchHandler)

\* ------------------------------------------------- ParallelBatchHandler
IdleParallelHandler(n) ==
    [IdleBatchHandler(n, n, TRUE, 1) EXCEPT !.kind = "wave"] @@ [error |-> 0]

InitPBH ==
    /\ InitRest
    /\ \E n \in 0..MaxItems : bh = IdleParallelHandler(n)

\* An item's processSingleItem rejected: Promise.all rejects with the first
\* rejection, so handleRequest, executeLifecycle and run reject with it;
\* later rejections change nothing.
WaveItemFailedSwallowed(b, i) == [b EXCEPT !.st[i] = "failed"]
WaveItemFailed(b, i) ==
    IF b.pc = "running"
    THEN [b EXCEPT !.st[i] = "failed", !.pc = "rejected", !.error = i]
    ELSE [b EXCEPT !.st[i] = "failed"]

\* ParallelBatchHandler.run(sharedData): prepareInputs, and handleRequest up to
\* Promise.all: inputs.map has called processSingleItem for every item.
StartParallelHandler ==
    /\ bh.pc = "idle" /\ bh.kind = "wave"
    /\ bh' = Dispatched([bh EXCEPT !.pc = "running", !.prepCalls = bh.prepCalls + 1], 1..bh.n)
    /\ UNCHANGED <<rest, ctx, arr>>

WaveItemSucceeds(i) ==
    /\ bh.kind = "wave" /\ bh.pc \in {"running", "rejected"}
    /\ i \in 1..bh.n /\ bh.st[i] = "running"
    /\ bh' = SettledRecorded([bh EXCEPT !.st[i] = "ok"], i)
    /\ UNCHANGED <<rest, ctx, arr>>

WaveItemFails(i) ==
    /\ bh.kind = "wave" /\ bh.pc \in {"running", "rejected"}
    /\ i \in 1..bh.n /\ bh.st[i] = "running"
    /\ bh' = SettledRecorded(WaveItemFailed(bh, i), i)
    /\ UNCHANGED <<rest, ctx, arr>>

\* Promise.all has resolved with the outputs in the items' order:
\* processResults, that is the test handler's processBatchResults, which
\* stores them in the context and returns the label.
FinishParallelHandler ==
    /\ bh.kind = "wave" /\ bh.pc = "running"
    /\ \A i \in 1..bh.n : bh.st[i] = "ok"
    /\ ctx' = [ctx EXCEPT ![Main] = ObjectAssign(ctx[Main], [results |-> Main])]
    /\ arr' = [arr EXCEPT ![Main] =
                 LET outputs == PromiseAll(bh, [i \in 1..bh.n |-> i])
                 IN [j \in 1..Len(outputs) |-> ItemOutput(bh, outputs[j])]]
    /\ bh' = [bh EXCEPT !.pc = "done", !.procCalls = bh.procCalls + 1,
                        !.action = "default"]
    /\ UNCHANGED rest

NextPBH ==
    \/ StartParallelHandler
    \/ \E i \in 1..MaxItems : WaveItemSucceeds(i)
    \/ \E i \in 1..MaxItems : WaveItemFails(i)
    \/ FinishParallelHandler

SpecPBH == InitPBH /\ [][NextPBH]_vars

\* Observed runs of the two concurrent units: a ParallelBatchHandler, or a
\* BatchHandler with maxConcurrency > 1.
InitOrder ==
    /\ InitRest
    /\ \/ \E n \in 0..MaxItems : bh = IdleParallelHandler(n) @@ [order |-> <<>>]
       \/ \E n \in 0..MaxItems, conc \in 2..MaxConc, failFast \in BOOLEAN,
             retries \in {1} :
            bh = IdleBatchHandler(n, conc, failFast, retries) @@ [order |-> <<>>]

NextOrder == NextBH \/ NextPBH

SpecOrder == InitOrder /\ [][NextOrder]_vars

\* ------------------------------------- BatchHandler, processSingleItem variant
\* The items of the caller's context: up to MaxItems items of two kinds.
ItemValues == {1, 2}
BatchInputs == UNION {[1..n -> ItemValues] : n \in 0..MaxItems}

\* The test handler's processSingleItem on success: `processed:${item}`.
processSingleItem(item) == [kind |-> "processed", item |-> item]

\* The handler after construction: spy lists the items processSingleItem has
\* been called with, results is the local array of handleRequest.
IdleSimpleHandler ==
    [pc |-> "idle", kind |-> "simple", inputs |-> <<>>, cur |-> 0, spy |-> <<>>,
     results |-> <<>>, error |-> 0, prepCalls |-> 0, procCalls |-> 0, action |-> None]

InitSBH ==
    /\ successors = NoEdges
    /\ startHandler = [p \in Pipelines \cup {Template} |-> IF p = Template THEN "A" ELSE "B"]
    /\ maxRetries = [h \in Handlers |-> 1]
    /\ retryDelayMs = [h \in Handlers |-> 0]
    /\ params = [u \in Units \cup {Template, Batch} |-> NoParams]
    /\ currentRetry = [h \in Handlers |-> 0]
    /\ \E items \in BatchInputs :
         ctx = [c \in {Main} \cup Tasks |-> IF c = Main THEN [items |-> items] ELSE NoParams]
    /\ arr = [c \in {Main} \cup Tasks |-> <<>>]
    /\ task = [t \in Tasks |-> IdleTask]
    /\ drv = [pc |-> "none"]
    /\ bh = IdleSimpleHandler

\* handleRequest, lines 58-61: the loop calls processSingleItem with item k
\* and awaits it, or, past the last item, returns results.
SimpleNext(b, k) ==
    IF k <= Len(b.inputs)
    THEN [b EXCEPT !.cur = k, !.spy = Append(b.spy, b.inputs[k])]
    ELSE [b EXCEPT !.pc = "resolved"]

\* handleRequest, line 59: the awaited processSingleItem rejected; nothing
\* catches the error, in handleRequest, executeLifecycle or run.
SimpleItemFailedSkips(b) == SimpleNext(b, b.cur + 1)
SimpleItemFailed(b) == [b EXCEPT !.pc = "rejected", !.error = b.cur]

\* BatchHandler.run(sharedData): BaseHandler.run, prepareInputs, and
\* handleRequest up to its first await (or its return, for no items).
StartSimpleBatch ==
    /\ bh.pc = "idle" /\ bh.kind = "simple"
    /\ bh' = SimpleNext([bh EXCEPT !.pc = "running", !.prepCalls = bh.prepCalls + 1,
                                   !.inputs = ctx[Main]["items"]], 1)
    /\ UNCHANGED <<rest, ctx, arr>>

\* The awaited processSingleItem resolved: its result is pushed, the loop
\* goes on.
SimpleItemSucceeds ==
    /\ bh.pc = "running" /\ bh.kind = "simple"
    /\ bh' = SimpleNext([bh EXCEPT !.results =
                  Append(bh.results, processSingleItem(bh.inputs[bh.cur]))], bh.cur + 1)
    /\ UNCHANGED <<rest, ctx, arr>>

SimpleItemFails ==
    /\ bh.pc = "running" /\ bh.kind = "simple"
    /\ bh' = SimpleItemFailed(bh)
    /\ UNCHANGED <<rest, ctx, arr>>

\* executeLifecycle after handleRequest has resolved: processResults, that is
\* the test handler's processBatchResults.
FinishSimpleBatch ==
    /\ bh.pc = "resolved" /\ bh.kind = "simple"
    /\ ctx' = [ctx EXCEPT ![Main] = ObjectAssign(ctx[Main],
                 [results |-> Main, processedCount |-> Len(bh.results)])]
    /\ arr' = [arr EXCEPT ![Main] = bh.results]
    /\ bh' = [bh EXCEPT !.pc = "done", !.procCalls = bh.procCalls + 1,
                        !.action = "complete"]
    /\ UNCHANGED rest

NextSBH ==
    \/ StartSimpleBatch
    \/ SimpleItemSucceeds
    \/ SimpleItemFails
    \/ FinishSimpleBatch

SpecSBH == InitSBH /\ [][NextSBH]_vars

\* ------------------------------------- overlapping runs of one orchestrator
\* Two run calls on the same BatchPipeline or ParallelBatchPipeline instance,
\* call c with its own context object, here named c as well.  The instance
\* field currentSharedData is <<>> (undefined) or <<c>>, the context last
\* stored; the references kept by a sub-run are written the same way.
\* A sub-run records the context its template run was given (for the
\* parallel orchestrator: the context its isolated copy was taken from), the
\* context its merge-back wrote to, and why it failed: "own" when the
\* template run rejected, "cleared" when currentSharedData was undefined
\* although the sub-run's own call had not settled, "late" when it was
\* undefined and the sub-run's own call had already rejected.
Calls == {1, 2}

NoSub == [st |-> "none", on |-> <<>>, merged |-> <<>>, cause |-> None]

IdleCall(n) == [pc |-> "idle", n |-> n, cause |-> None, sub |-> [k \in 1..n |-> NoSub]]

InitOverlap ==
    /\ successors = NoEdges
    /\ startHandler = [p \in Pipelines \cup {Template} |-> IF p = Template THEN "A" ELSE "B"]
    /\ maxRetries = [h \in Handlers |-> 1]
    /\ retryDelayMs = [h \in Handlers |-> 0]
    /\ params = [u \in Units \cup {Template, Batch} |-> NoParams]
    /\ currentRetry = [h \in Handlers |-> 0]
    /\ ctx = [c \in {Main} \cup Tasks |-> NoParams]
    /\ arr = [c \in {Main} \cup Tasks |-> <<>>]
    /\ task = [t \in Tasks |-> IdleTask]
    /\ bh = [pc |-> "none"]
    /\ \E kind \in {"batch", "parallel"}, n1 \in 0..MaxRuns, n2 \in 0..MaxRuns :
         drv = [pc |-> "overlap", kind |-> kind, currentSharedData |-> <<>>,
                call |-> [c \in Calls |-> IdleCall(IF c = 1 THEN n1 ELSE n2)]]

\* executePipelineWithParams for item k of call c, up to its await.
\* BatchPipeline passes this.currentSharedData to pipelineInstance.run, which
\* throws on undefined; ParallelBatchPipeline copies getCurrentSharedData().
SubDispatched(d, c, k) ==
    IF d.currentSharedData = <<>>
    THEN [d EXCEPT !.call[c].sub[k] = [NoSub EXCEPT !.st = "failed", !.cause = "cleared"]]
    ELSE [d EXCEPT !.call[c].sub[k] = [NoSub EXCEPT !.st = "running", !.on = d.currentSharedData]]

\* executeLifecycle's finally, after handleRequest resolved and processResults
\* ran, or after handleRequest rejected: the field is cleared whatever it holds.
CallSettled(d, c, outcome, cause) ==
    [d EXCEPT !.call[c].pc = outcome, !.call[c].cause = cause, !.currentSharedData = <<>>]

\* BatchPipeline.handleRequest: the loop after item k, or the first iteration
\* when k = 0.
BatchLoop(d, c, k) ==
    IF k = d.call[c].n THEN CallSettled(d, c, "resolved", None)
    ELSE LET d1 == SubDispatched(d, c, k + 1)
         IN IF d1.call[c].sub[k + 1].st = "failed"
            THEN CallSettled(d1, c, "rejected", "cleared")
            ELSE d1

\* run(sharedData) of call c: BaseHandler.run, executeLifecycle storing the
\* context in currentSharedData, prepareInputs, and handleRequest up to its
\* first await.
OverlapRun(c) ==
    /\ drv.pc = "overlap" /\ drv.call[c].pc = "idle"
    /\ LET d == [drv EXCEPT !.currentSharedData = <<c>>, !.call[c].pc = "running"]
           n == d.call[c].n
       IN drv' = IF d.kind = "batch"
                 THEN IF n = 0 THEN d ELSE BatchLoop(d, c, 0)
                 ELSE [d EXCEPT !.call[c].sub =
                          [k \in 1..n |-> SubDispatched(d, c, k).call[c].sub[k]]]
    /\ UNCHANGED <<graph, currentRetry, task, ctx, arr, bh>>

\* The template run of item k of call c resolved.  BatchPipeline: the loop
\* goes on.  ParallelBatchPipeline: mergeSharedDataResults writes to
\* getCurrentSharedData(), which throws when the field is undefined.
OverlapSubResolves(c, k) ==
    /\ drv.pc = "overlap"
    /\ k \in 1..drv.call[c].n /\ drv.call[c].sub[k].st = "running"
    /\ drv' = IF drv.kind = "batch"
              THEN LET d == [drv EXCEPT !.call[c].sub[k].st = "resolved"]
                   IN IF d.call[c].pc = "running" THEN BatchLoop(d, c, k) ELSE d
              ELSE IF drv.currentSharedData = <<>>
              THEN LET d == [drv EXCEPT !.call[c].sub[k].st = "failed",
                                        !.call[c].sub[k].cause =
                                            IF drv.call[c].pc = "running"
                                            THEN "cleared" ELSE "late"]
                   IN IF d.call[c].pc = "running"
                      THEN CallSettled(d, c, "rejected", "cleared") ELSE d
              ELSE [drv EXCEPT !.call[c].sub[k].st = "merged",
                               !.call[c].sub[k].merged = drv.currentSharedData]
    /\ UNCHANGED <<graph, currentRetry, task, ctx, arr, bh>>

\* The template run of item k of call c rejected: handleRequest rejects (the
\* loop's await, or Promise.all), and so does the call if it is still running.
OverlapSubRejects(c, k) ==
    /\ drv.pc = "overlap"
    /\ k \in 1..drv.call[c].n /\ drv.call[c].sub[k].st = "running"
    /\ LET d == [drv EXCEPT !.call[c].sub[k].st = "failed", !.call[c].sub[k].cause = "own"]
       IN drv' = IF d.call[c].pc = "running" THEN CallSettled(d, c, "rejected", "own") ELSE d
    /\ UNCHANGED <<graph, currentRetry, task, ctx, arr, bh>>

\* handleRequest of call c resolved with nothing left to run: Promise.all of
\* a wave whose sub-runs have all merged, or a batch without items.
OverlapJoin(c) ==
    /\ drv.pc = "overlap" /\ drv.call[c].pc = "running"
    /\ IF drv.kind = "batch" THEN drv.call[c].n = 0
       ELSE \A k \in 1..drv.call[c].n : drv.call[c].sub[k].st = "merged"
    /\ drv' = CallSettled(drv, c, "resolved", None)
    /\ UNCHANGED <<graph, currentRetry, task, ctx, arr, bh>>

NextOverlap ==
    \/ \E c \in Calls : OverlapRun(c)
    \/ \E c \in Calls, k \in 1..MaxRuns : OverlapSubResolves(c, k)
    \/ \E c \in Calls, k \in 1..MaxRuns : OverlapSubRejects(c, k)
    \/ \E c \in Calls : OverlapJoin(c)

SpecOverlap == InitOverlap /\ [][NextOverlap]_vars

\* ------------------------------------------------------------ AsyncHandler
\* An AsyncHandler run directly.  The record keeps the configuration, the
\* loop variable attempt, and what the run has called: prepareInputsAsync,
\* handleRequestAsync (with each attempt's outcome), handleErrorAsync,
\* processResultsAsync; phase is the method whose rejection rejected run.
IdleAsyncHandler(retries, delayMs) ==
    [pc |-> "idle", kind |-> "async", maxRetries |-> retries, retryDelayMs |-> delayMs,
     attempt |-> 0, calls |-> 0, attempts |-> <<>>, errCalls |-> 0, sleeps |-> 0,
     prepCalls |-> 0, procCalls |-> 0, output |-> None, phase |-> None, action |-> None]

InitAsync ==
    /\ InitRest
    /\ \E retries \in 1..MaxRetriesBound, delayMs \in RetryDelays :
         bh = IdleAsyncHandler(retries, delayMs)

\* handleRequestAsyncWithRetries, lines 587-589: the loop's condition holds
\* and handleRequestAsync is called; or the loop is over and handleErrorAsync
\* is called with the last error.
AsyncLoop(b, attempt) ==
    IF attempt <= b.maxRetries
    THEN [b EXCEPT !.pc = "computing", !.attempt = attempt, !.calls = b.calls + 1]
    ELSE [b EXCEPT !.pc = "handlingError", !.errCalls = b.errCalls + 1]

\* The catch block, lines 590-602: break on the last attempt, else wait when
\* a delay is configured, else go on with the next attempt.
AsyncAttemptFailed(b) ==
    IF b.attempt = b.maxRetries
    THEN [b EXCEPT !.pc = "handlingError", !.errCalls = b.errCalls + 1]
    ELSE IF b.retryDelayMs > 0
    THEN [b EXCEPT !.pc = "sleeping", !.sleeps = b.sleeps + 1]
    ELSE AsyncLoop(b, b.attempt + 1)

\* executeAsyncLifecycle: a rejection of prepareInputsAsync or of
\* processResultsAsync is not caught and rejects run.
PhaseRejectedHandled(b, phase) ==
    [b EXCEPT !.pc = "handlingError", !.errCalls = b.errCalls + 1]
PhaseRejected(b, phase) == [b EXCEPT !.pc = "rejected", !.phase = phase]

\* AsyncHandler.run(sharedData): the parameters are merged and
\* prepareInputsAsync is called.
StartAsync ==
    /\ bh.pc = "idle" /\ bh.kind = "async"
    /\ ctx' = [ctx EXCEPT ![Main] = ObjectAssign(ctx[Main], params["A"])]
    /\ bh' = [bh EXCEPT !.pc = "preparing", !.prepCalls = bh.prepCalls + 1]
    /\ UNCHANGED <<rest, arr>>

PrepareResolves ==
    /\ bh.pc = "preparing" /\ bh.kind = "async"
    /\ bh' = AsyncLoop(bh, 1)
    /\ UNCHANGED <<rest, ctx, arr>>

PrepareRejects ==
    /\ bh.pc = "preparing" /\ bh.kind = "async"
    /\ bh' = PhaseRejected(bh, "prepare")
    /\ UNCHANGED <<rest, ctx, arr>>

\* handleRequestAsync resolved: the output is returned to
\* executeAsyncLifecycle, which calls processResultsAsync.
AsyncAttemptSucceeds ==
    /\ bh.pc = "computing" /\ bh.kind = "async"
    /\ bh' = [bh EXCEPT !.pc = "processing", !.attempts = Append(bh.attempts, "ok"),
                        !.output = "ok", !.procCalls = bh.procCalls + 1]
    /\ UNCHANGED <<rest, ctx, arr>>

AsyncAttemptFails ==
    /\ bh.pc = "computing" /\ bh.kind = "async"
    /\ bh' = AsyncAttemptFailed([bh EXCEPT !.attempts = Append(bh.attempts, "fail")])
    /\ UNCHANGED <<rest, ctx, arr>>

\* The delay is over: the loop's increment, condition and next attempt.
AsyncTimerFires ==
    /\ bh.pc = "sleeping" /\ bh.kind = "async"
    /\ bh' = AsyncLoop(bh, bh.attempt + 1)
    /\ UNCHANGED <<rest, ctx, arr>>

\* handleErrorAsync returned a fallback output: processResultsAsync is called.
ErrorHandlerResolves ==
    /\ bh.pc = "handlingError" /\ bh.kind = "async"
    /\ bh' = [bh EXCEPT !.pc = "processing", !.output = "fallback",
                        !.procCalls = bh.procCalls + 1]
    /\ UNCHANGED <<rest, ctx, arr>>

\* handleErrorAsync rethrew (the default): run rejects.
ErrorHandlerRejects ==
    /\ bh.pc = "handlingError" /\ bh.kind = "async"
    /\ bh' = [bh EXCEPT !.pc = "rejected", !.phase = "compute"]
    /\ UNCHANGED <<rest, ctx, arr>>

\* processResultsAsync stored the output and returned a label: run resolves.
ProcessResolves ==
    /\ bh.pc = "processing" /\ bh.kind = "async"
    /\ \E a \in Labels :
         bh' = [bh EXCEPT !.pc = "done", !.action = a]
    /\ ctx' = [ctx EXCEPT ![Main] = ObjectAssign(ctx[Main], [output |-> bh.output])]
    /\ UNCHANGED <<rest, arr>>

ProcessRejects ==
    /\ bh.pc = "processing" /\ bh.kind = "async"
    /\ bh' = PhaseRejected(bh, "process")
    /\ UNCHANGED <<rest, ctx, arr>>

NextAsync ==
    \/ StartAsync
    \/ PrepareResolves
    \/ PrepareRejects
    \/ AsyncAttemptSucceeds
    \/ AsyncAttemptFails
    \/ AsyncTimerFires
    \/ ErrorHandlerResolves
    \/ ErrorHandlerRejects
    \/ ProcessResolves
    \/ ProcessRejects

SpecAsync == InitAsync /\ [][NextAsync]_vars

\* ================================================================ claims
\* Units at nesting depth 0 of a task: those the top-level orchestrate runs.
AtDepth0(e) == e.d = 0
IsHandlerEntry(e) == e.u \in Handlers
Top0(t) == SelectSeq(task[t].begun, AtDepth0)
Ret0(t) == SelectSeq(task[t].hist, AtDepth0)
\* The handlers whose processResults has run, in order.
Processed(t) == SelectSeq(task[t].hist, IsHandlerEntry)
\* The path array of the context of task t, as the sequence of unit names.
PathOf(t) ==
    LET c == ctx[task[t].ctx]
    IN IF "path" \in DOMAIN c
       THEN [i \in 1..Len(arr[c["path"]]) |-> arr[c["path"]][i].u]
       ELSE <<>>
AllFailed(tk) == \A i \in 1..Len(tk.attempts) : tk.attempts[i] = "fail"

\* C1: when the unit that just returned has no transition registered under the
\* label it returned, the traversal's next step runs no further unit and keeps
\* the label: the top-level run resolves with it (a nested pipeline hands it
\* to its parent's loop), whatever other labels the unit has transitions for.
C1_HaltOnUnregistered ==
    [][\A t \in Tasks :
        (/\ task[t].pc = "returned"
         /\ successors[task[t].cur][task[t].lastAction] = None
         /\ task'[t] # task[t])
        => /\ task'[t].begun = task[t].begun
           /\ task'[t].lastAction = task[t].lastAction
           /\ ctx' = ctx /\ arr' = arr
           /\ IF task[t].stack = <<>>
              THEN task'[t].pc = "done"
              ELSE /\ task'[t].pc = "returned"
                   /\ task'[t].cur = Head(task[t].stack)
                   /\ task'[t].stack = Tail(task[t].stack)]_vars

C1_Witness ==
    /\ task[1].pc = "done"
    /\ task[1].hist # <<>>
    /\ LET e == task[1].hist[Len(task[1].hist)]
       IN /\ e.d = 0
          /\ hasSuccessors(e.u)
          /\ successors[e.u][e.a] = None
          /\ task[1].lastAction = e.a

\* C2: the units the top-level pipeline runs are u1 = start and
\* u(i+1) = successors[u(i)][a(i)], a(i) the action u(i) returned; the first
\* unit of a nested pipeline is its start handler; when run has returned, every
\* unit begun has returned, the last one's label has no successor and is the
\* result, and the context's path holds the pushes of all handlers run, in order.
C2_TraversalOrder ==
    LET tk == task[1]
        top == Top0(1)
        ret == Ret0(1)
    IN /\ Len(ret) <= Len(top) /\ Len(top) <= Len(ret) + 1
       /\ tk.pc # "idle" => top # <<>> /\ top[1].u = startHandler[Template]
       /\ \A i \in 1..Len(ret) : ret[i].u = top[i].u
       /\ \A i \in 1..(Len(top) - 1) : top[i + 1].u = successors[top[i].u][ret[i].a]
       /\ \A i \in 1..(Len(tk.begun) - 1) :
            tk.begun[i + 1].d = tk.begun[i].d + 1
                => tk.begun[i + 1].u = startHandler[tk.begun[i].u]
       /\ tk.pc = "done" =>
            /\ Len(ret) = Len(top)
            /\ tk.lastAction = ret[Len(ret)].a
            /\ successors[ret[Len(ret)].u][tk.lastAction] = None
            /\ PathOf(1) = [i \in 1..Len(Processed(1)) |-> Processed(1)[i].u]

C2_Witness ==
    /\ task[1].pc = "done"
    /\ Len(Top0(1)) >= 3
    /\ \E i \in 1..Len(task[1].begun) : task[1].begun[i].d = 1
    /\ \E i, j \in 1..Len(Ret0(1)) : Ret0(1)[i].a # Ret0(1)[j].a

\* C3: a handler run whose attempts all failed has called handleRequest exactly
\* maxRetries times and handleError exactly once; handleError is called only
\* after maxRetries failed attempts, and handleRequest never more than
\* maxRetries times.
C3_RetryBound ==
    \A t \in Tasks :
        LET tk == task[t]
        IN tk.last # None =>
            /\ tk.calls <= maxRetries[tk.last]
            /\ tk.errCalls <= 1
            /\ tk.errCalls = 1 =>
                 /\ Len(tk.attempts) = maxRetries[tk.last]
                 /\ AllFailed(tk)
            /\ (tk.pc # "computing" /\ AllFailed(tk)) =>
                 /\ tk.calls = maxRetries[tk.last]
                 /\ Len(tk.attempts) = tk.calls
                 /\ tk.errCalls = 1

C3_Witness ==
    /\ task[1].pc = "failed"
    /\ maxRetries[task[1].last] >= 3
    /\ task[1].calls = maxRetries[task[1].last]
    /\ AllFailed(task[1])
    /\ task[1].errCalls = 1

\* C4: once an attempt of a handler run has succeeded, it is the last attempt:
\* handleRequest was called exactly (failed attempts + 1) times, no attempt is
\* in flight, handleError was not called, processResults ran once and the run
\* did not fail.
C4_RetrySuccess ==
    \A t \in Tasks :
        LET tk == task[t]
            n == Len(tk.attempts)
        IN (\E i \in 1..n : tk.attempts[i] = "ok") =>
            /\ tk.attempts[n] = "ok"
            /\ \A i \in 1..(n - 1) : tk.attempts[i] = "fail"
            /\ tk.calls = n
            /\ n <= maxRetries[tk.last]
            /\ tk.errCalls = 0
            /\ tk.procCalls = 1
            /\ tk.pc \in {"returned", "done"}

C4_Witness ==
    /\ task[1].attempts = <<"fail", "fail", "ok">>
    /\ task[1].pc = "returned"
    /\ task[1].calls = 3

\* C5: when handleError threw after the last failed attempt, the whole run has
\* failed, nested pipelines included: processResults of the failing unit was
\* not called, no unit was begun after it, and the context still holds the
\* pushes of the handlers that completed before.
C5_FatalPropagation ==
    \A t \in Tasks :
        LET tk == task[t]
        IN tk.errOutcome = "threw" =>
            /\ tk.pc = "failed"
            /\ tk.procCalls = 0
            /\ tk.begun[Len(tk.begun)].u = tk.last
            /\ Len(Processed(t)) = Len(SelectSeq(tk.begun, IsHandlerEntry)) - 1
            /\ PathOf(t) = [i \in 1..Len(Processed(t)) |-> Processed(t)[i].u]

C5_Witness ==
    /\ task[1].pc = "failed"
    /\ task[1].errOutcome = "threw"
    /\ task[1].stack # <<>>
    /\ Len(PathOf(1)) >= 1

\* C6: when handleError returned a substitute output, the run does not fail:
\* processResults ran exactly once, with the substitute output, the unit's run
\* resolved with the action processResults returned, and the orchestrator's
\* next step follows the transition registered for that action.
C6_FallbackState ==
    \A t \in Tasks :
        LET tk == task[t]
        IN tk.errOutcome = "fallback" =>
            /\ tk.pc \in {"returned", "done"}
            /\ tk.procCalls = 1
            /\ tk.errCalls = 1
            /\ (tk.pc = "returned" /\ tk.cur = tk.last) =>
                 /\ ctx[tk.ctx]["output"] = "fallback"
                 /\ tk.hist[Len(tk.hist)] = [d |-> Len(tk.stack), u |-> tk.last, a |-> tk.lastAction]

C6_FallbackStep ==
    \A t \in Tasks :
        (/\ task[t].errOutcome = "fallback"
         /\ task[t].pc = "returned"
         /\ task[t].cur = task[t].last
         /\ task'[t] # task[t])
        => LET nx == successors[task[t].last][task[t].lastAction]
           IN IF nx # None
              THEN /\ task'[t].pc = "computing"
                   /\ task'[t].cur = EnterHandler(nx)
                   /\ task'[t].begun[Len(task[t].begun) + 1].u = nx
              ELSE /\ task'[t].pc \in {"done", "returned"}
                   /\ task'[t].lastAction = task[t].lastAction
                   /\ task'[t].begun = task[t].begun

C6_Fallback == [](C6_FallbackState) /\ [][C6_FallbackStep]_vars

C6_Witness ==
    /\ task[1].pc = "computing"
    /\ Len(task[1].hist) >= 1
    /\ ctx[Main]["output"] = "fallback"
    /\ task[1].begun[Len(task[1].begun)].u =
         successors[task[1].hist[Len(task[1].hist)].u][task[1].hist[Len(task[1].hist)].a]

\* ---------------------------------------------- batch orchestrator claims
RECURSIVE SumV(_)
SumV(entries) == IF entries = <<>> THEN 0 ELSE Head(entries).v + SumV(Tail(entries))
RECURSIVE SumA(_)
SumA(inputs) == IF inputs = <<>> THEN 0 ELSE Head(inputs).a + SumA(Tail(inputs))
\* The handlers processed by runs 1..k, in order, each with its run.
RECURSIVE ProcessedUpTo(_)
ProcessedUpTo(k) ==
    IF k = 0 THEN <<>>
    ELSE ProcessedUpTo(k - 1) \o [i \in 1..Len(Processed(k)) |-> [u |-> Processed(k)[i].u, k |-> k]]
\* The array field of the context at address c.
ArrayOf(c) == IF "path" \in DOMAIN ctx[c] THEN arr[ctx[c]["path"]] ELSE <<>>
Runs == 1..Len(drv.inputs)
\* What run t has appended to the array of its context since the dispatch.
OwnPushes(t) == SubSeq(ArrayOf(t), Len(drv.snapArr) + 1, Len(ArrayOf(t)))

\* C7: every run of a BatchPipeline executes on the caller's context object,
\* so the context holds what all runs so far did to it, in order: its array
\* is the concatenation of the runs' entries, each with the run's own
\* parameter a (0 for a fallback), its count the sum of what the handlers
\* added; when every run's single handler succeeded, the count at the end is
\* the sum of the parameter sets' a (3 for [{a:1},{a:2}] from count 0).
C7_Accumulate ==
    (drv.kind = "batch" /\ drv.pc # "idle") =>
        LET path == ArrayOf(Main)
            exp == ProcessedUpTo(drv.idx)
        IN /\ \A k \in 1..drv.idx : task[k].ctx = Main
           /\ Len(path) = Len(exp)
           /\ \A i \in 1..Len(path) :
                /\ path[i].u = exp[i].u
                /\ path[i].v \in {0, drv.inputs[exp[i].k].a}
           /\ ctx[Main]["count"] = SumV(path)
           /\ (/\ drv.pc = "done"
               /\ successors = NoEdges
               /\ \A k \in Runs : task[k].errCalls = 0)
              => ctx[Main]["count"] = SumA(drv.inputs)
C7_Witness ==
    /\ drv.kind = "batch" /\ drv.pc = "done"
    /\ drv.inputs = <<[a |-> 1], [a |-> 2]>>
    /\ successors = NoEdges
    /\ ctx[Main]["count"] = 3
    /\ Len(ArrayOf(Main)) = 2

\* C8: when a ParallelBatchPipeline has run two parameter sets on a context
\* whose array started empty, every entry a run appended to its copy's array
\* is in the array of the main context at the end.
C8_NoSilentLoss ==
    (/\ drv.kind = "parallel" /\ drv.pc = "done"
     /\ Len(drv.inputs) = 2 /\ drv.snapArr = <<>>)
    => \A k \in Runs : \A i \in 1..Len(arr[k]) :
          \E j \in 1..Len(ArrayOf(Main)) : ArrayOf(Main)[j] = arr[k][i]

\* C9: from its dispatch on, each run of a ParallelBatchPipeline wave works on
\* its own context object and its own array object: its handlers read their
\* inputs from it, the array holds the dispatch-time elements followed by the
\* run's own entries only, the count the dispatch-time count plus what the
\* run's own handlers added; nothing writes the array object of the main
\* context, and before the first merge the main context is as at dispatch.
C9_Isolation ==
    (drv.kind = "parallel" /\ drv.pc # "idle") =>
        /\ \A t \in Runs :
             /\ task[t].ctx = t
             /\ "path" \in DOMAIN ctx[t] => ctx[t]["path"] = t
             /\ ctx[t]["a"] = drv.inputs[t].a
             /\ task[t].inputs = drv.inputs[t].a
             /\ SubSeq(arr[t], 1, Len(drv.snapArr)) = drv.snapArr
             /\ Len(OwnPushes(t)) = Len(Processed(t))
             /\ \A i \in 1..Len(OwnPushes(t)) :
                  /\ OwnPushes(t)[i].u = Processed(t)[i].u
                  /\ OwnPushes(t)[i].v \in {0, drv.inputs[t].a}
             /\ ctx[t]["count"] = drv.snap["count"] + SumV(OwnPushes(t))
        /\ arr[Main] = drv.snapArr
        /\ (drv.pc = "running" /\ \A t \in Runs : task[t].pc # "merged")
           => ctx[Main] = drv.snap
C9_Witness ==
    /\ drv.kind = "parallel" /\ drv.pc = "running"
    /\ Len(drv.inputs) = 2
    /\ "path" \in DOMAIN drv.snap
    /\ task[1].pc = "computing" /\ task[2].pc = "computing"
    /\ arr[1] # <<>> /\ arr[2] # <<>> /\ arr[1] # arr[2]
    /\ ctx[1]["count"] # ctx[2]["count"]

\* C10 as stated: while the wave is awaited, the main context changes only
\* when no run of the wave is still executing.
C10_MergeAfterAll ==
    [][(drv.kind = "parallel" /\ drv.pc = "running" /\ ctx'[Main] # ctx[Main])
       => \A t \in Runs : task[t].pc \notin {"computing", "returned"}]_vars

\* C10, amended: after the dispatch the main context changes only by the merge
\* of a run whose own pipeline run has completed (other runs may still be
\* executing), to Object.assign of that run's copy, and by
\* processBatchResults once every run has been merged.
C10_MergeAfterOwnRun ==
    [][(drv.kind = "parallel" /\ drv.pc # "idle" /\ ctx'[Main] # ctx[Main])
       => \/ \E t \in Runs :
               /\ task[t].pc = "done" /\ task'[t].pc = "merged"
               /\ ctx'[Main] = ObjectAssign(ctx[Main], ctx[t])
          \/ /\ \A t \in Runs : task[t].pc = "merged"
             /\ ctx'[Main] = processBatchResults(ctx[Main], drv.inputs)]_vars
C10_Witness ==
    /\ drv.kind = "parallel" /\ drv.pc = "running"
    /\ Len(drv.inputs) = 2
    /\ task[1].pc = "merged" /\ task[2].pc = "computing"
    /\ ctx[Main] # drv.snap

\* C11: a run's copy is merged at most once, and when the run of a
\* ParallelBatchPipeline has returned, every run of the wave has been merged
\* exactly once.
C11_MergedOnce ==
    (drv.kind = "parallel" /\ drv.pc # "idle") =>
        /\ \A t \in Runs : task[t].merges <= 1
        /\ \A t \in Runs : task[t].merges = 1 <=> task[t].pc = "merged"
        /\ drv.pc = "done" => \A t \in Runs : task[t].merges = 1
C11_Witness ==
    /\ drv.kind = "parallel" /\ drv.pc = "done"
    /\ Len(drv.inputs) = 2
    /\ task[1].merges = 1 /\ task[2].merges = 1

\* C12 as stated: when the run of a batch orchestrator has ended, resolved or
\* rejected, processBatchResults has been invoked exactly once.
C12_FinalizedAlways ==
    drv.pc \in {"done", "failed"} => drv.procCalls = 1

\* C12, amended: processBatchResults is invoked only when every template run
\* has completed (and, in the parallel orchestrator, been merged), exactly
\* once, and its label is the action of the run; when a template run rejects,
\* the run rejects with processBatchResults never invoked.
C12_FinalizedOnSuccess ==
    /\ drv.pc \in {"idle", "running"} => drv.procCalls = 0 /\ drv.action = None
    /\ drv.pc = "done" =>
         /\ drv.procCalls = 1 /\ drv.action = "completed"
         /\ ctx[Main]["processedCount"] = Len(drv.inputs)
         /\ \A t \in Runs :
              task[t].pc = IF drv.kind = "parallel" THEN "merged" ELSE "done"
    /\ drv.pc = "failed" =>
         /\ drv.procCalls = 0 /\ drv.action = None
         /\ "processedCount" \notin DOMAIN ctx[Main]
         /\ \E t \in Runs : task[t].pc = "failed"
C12_Witness ==
    /\ drv.kind = "batch" /\ drv.pc = "done"
    /\ Len(drv.inputs) = 2 /\ drv.procCalls = 1
    /\ ctx[Main]["processedCount"] = 2

\* ------------------------------------------------- batch handler claims
Items == 1..bh.n
Settled == {"ok", "fallback", "failed"}
\* The index, from 0, of the chunk of maxConcurrency items that holds item i.
ChunkOf(i) == (i - 1) \div bh.conc
\* Item j is dispatched before item i can be, when both are.
Before(j, i) == IF bh.conc = 1 THEN j < i ELSE ChunkOf(j) < ChunkOf(i)
IsFailed(i) == bh.st[i] = "failed"
\* The items 1..n in order.
ItemSeq == [i \in Items |-> i]

\* C13: the BatchResult a BatchHandler's handleRequest resolves with has
\* successful = length(results), failed = length(errors), totalItems = number
\* of inputs and successful + failed <= totalItems, with equality when
\* failFast is off: then every item was attempted and is in results or errors.
C13_BatchAccounting ==
    (bh.kind = "batch" /\ bh.pc \in {"resolved", "done"}) =>
        LET r == bh.result
        IN /\ r.successful = Len(r.results)
           /\ r.failed = Len(r.errors)
           /\ r.totalItems = bh.n
           /\ r.successful + r.failed <= r.totalItems
           /\ ~bh.failFast =>
                /\ r.successful + r.failed = r.totalItems
                /\ \A i \in Items : bh.calls[i] >= 1
                /\ r.failed = Cardinality({i \in Items : IsFailed(i)})
C13_Witness ==
    /\ bh.kind = "batch" /\ bh.pc = "done"
    /\ ~bh.failFast /\ bh.maxRetries = 1 /\ bh.n = 5
    /\ bh.result.successful = 3 /\ bh.result.failed = 2 /\ bh.result.totalItems = 5

\* C14: with failFast off a BatchHandler's run never rejects; it resolves
\* after processBatchResults has been invoked exactly once, with a BatchResult
\* whose errors are those of all the failed items, in order, and the label
\* processBatchResults returned is the action of the run.
C14_FailuresNotThrown ==
    (bh.kind = "batch" /\ ~bh.failFast) =>
        /\ bh.pc # "rejected"
        /\ bh.pc # "done" => bh.procCalls = 0 /\ bh.action = None
        /\ bh.pc = "done" =>
             /\ bh.procCalls = 1
             /\ bh.result.errors = SelectSeq(ItemSeq, IsFailed)
             /\ bh.action = BatchLabel(bh.result)
             /\ ctx[Main]["errorCount"] = Cardinality({i \in Items : IsFailed(i)})
C14_Witness ==
    /\ bh.kind = "batch" /\ bh.pc = "done" /\ ~bh.failFast
    /\ bh.n = 3 /\ \A i \in Items : IsFailed(i)
    /\ bh.action = "all_failed" /\ bh.result.failed = 3

\* C15: under failFast an item is passed to handleSingleItem only if no item
\* before it (sequential mode) or of an earlier chunk (maxConcurrency > 1)
\* has failed.
C15_FailFastStops ==
    (bh.kind = "batch" /\ bh.failFast) =>
        \A i \in Items : bh.calls[i] > 0 =>
            \A j \in Items : Before(j, i) => ~IsFailed(j)
C15_Witness ==
    /\ bh.kind = "batch" /\ bh.pc = "done" /\ bh.failFast
    /\ bh.conc = 2 /\ bh.n = 4
    /\ bh.st[1] = "ok" /\ bh.st[2] = "failed"
    /\ bh.calls[3] = 0 /\ bh.calls[4] = 0

\* C16: under failFast with maxConcurrency > 1, every item that was
\* dispatched and whose handleSingleItem succeeded is in the results of the
\* BatchResult.
C16_FailingChunkPreserved ==
    (bh.kind = "batch" /\ bh.failFast /\ bh.conc > 1 /\ bh.pc \in {"resolved", "done"}) =>
        \A i \in Items : bh.st[i] = "ok" =>
            \E k \in 1..Len(bh.result.results) : bh.result.results[k] = ItemOutput(bh, i)

\* C17: with maxConcurrency = c > 1 at most c items are in flight, the items
\* in flight are of one chunk of c consecutive items, and an item has been
\* passed to handleSingleItem only when every item of the earlier chunks has
\* settled, all its retries included.
C17_ChunkBarrier ==
    (bh.kind = "batch" /\ bh.conc > 1) =>
        /\ Cardinality({i \in Items : bh.st[i] = "running"}) <= bh.conc
        /\ \A i, j \in Items :
             (bh.st[i] = "running" /\ bh.st[j] = "running") => ChunkOf(i) = ChunkOf(j)
        /\ \A i \in Items : bh.calls[i] > 0 =>
             \A j \in Items : ChunkOf(j) < ChunkOf(i) => bh.st[j] \in Settled
C17_Witness ==
    /\ bh.kind = "batch" /\ bh.pc = "running"
    /\ bh.conc = 2 /\ bh.n = 4 /\ bh.maxRetries = 2
    /\ bh.attempt[1] = 2 /\ bh.st[1] \in Settled /\ bh.st[2] \in Settled
    /\ bh.st[3] = "running" /\ bh.st[4] = "running"

C20_NoneBeforeConnect ==
    (drv.pc = "graph" /\ drv.call = <<>>) =>
        \A u \in Units, l \in Labels : getNextHandler(u, l) = None
C20_ConnectStep ==
    drv.pc = "graph" =>
        \E v, w \in Units, a \in Labels :
           /\ drv'.call = <<v, w, a>>
           /\ getNextHandler(v, a)' = w
           /\ drv'.replaced = getNextHandler(v, a)
           /\ \A u \in Units, l \in Labels :
                <<u, l>> # <<v, a>> => getNextHandler(u, l)' = getNextHandler(u, l)
C20_TransitionDeterminism == [](C20_NoneBeforeConnect) /\ [][C20_ConnectStep]_vars
C20_Witness ==
    /\ drv.pc = "graph" /\ drv.call # <<>>
    /\ drv.replaced # None /\ drv.replaced # drv.call[2]
    /\ getNextHandler(drv.call[1], drv.call[3]) = drv.call[2]
    /\ \E l \in Labels : getNextHandler(drv.call[1], l) = None

\* ------------------------------------------------------ nested pipelines
IsPipelineEntry(e) == e.u \in Pipelines

\* C21: while a nested pipeline runs, the top-level pipeline has begun no
\* unit after it; the nested pipeline returns only when its last unit's
\* label has no successor in that unit's table, and returns that label; the
\* unit the parent runs next is the one registered under that label in the
\* nested pipeline's own table.
C21_NestedAsUnit ==
    LET tk == task[1]
        top == Top0(1)
        ret == Ret0(1)
    IN /\ tk.stack # <<>> =>
            /\ top # <<>>
            /\ top[Len(top)].u = tk.stack[Len(tk.stack)]
            /\ Len(ret) = Len(top) - 1
       /\ \A j \in 1..Len(tk.hist) :
            IsPipelineEntry(tk.hist[j]) =>
                /\ j > 1
                /\ tk.hist[j - 1].d = tk.hist[j].d + 1
                /\ tk.hist[j].a = tk.hist[j - 1].a
                /\ successors[tk.hist[j - 1].u][tk.hist[j - 1].a] = None
       /\ \A i \in 1..(Len(top) - 1) :
            IsPipelineEntry(top[i]) =>
                /\ Len(ret) >= i
                /\ ret[i].u = top[i].u
                /\ top[i + 1].u = getNextHandler(top[i].u, ret[i].a)

C21_Witness ==
    LET tk == task[1]
    IN /\ tk.pc = "done"
       /\ Len(Top0(1)) = 2
       /\ IsPipelineEntry(Top0(1)[1])
       /\ Ret0(1)[1].a = "go"
       /\ Top0(1)[2].u = "A"
       /\ PathOf(1) = <<"B", "A">>

\* ------------------------------------------- batch orchestrator ordering
Active(tk) == tk.pc \in {"computing", "returned"}

\* C22: the runs of a BatchPipeline are started in parameter-set order and
\* one at a time: a run has begun only when every earlier run has completed
\* its whole traversal, at most one run is executing, and no run beyond the
\* loop's current parameter set has begun.
C22_SequentialRuns ==
    (drv.kind = "batch") =>
        /\ \A k \in Tasks : k > drv.idx => task[k] = IdleTask
        /\ \A j, k \in Tasks :
             (j < k /\ task[k].pc # "idle") =>
                /\ task[j].pc = "done"
                /\ successors[task[j].last][task[j].lastAction] = None
                /\ \A i \in 1..Len(task[j].begun) :
                     \E h \in 1..Len(task[j].hist) :
                        task[j].hist[h].u = task[j].begun[i].u
        /\ Cardinality({k \in Tasks : Active(task[k])}) <= 1

C22_Witness ==
    /\ drv.kind = "batch" /\ drv.idx = 2
    /\ task[2].pc = "computing" /\ task[2].hist = <<>>
    /\ task[1].pc = "done"
    /\ Len(task[1].begun) >= 2
    /\ PathOf(1) = <<"A", "B">>

\* C23: when the pipeline run of parameter set k has rejected, the batch run
\* has not resolved and can only reject: processBatchResults is never
\* invoked, no run after k is ever started, and what the runs 1..k-1 (and run
\* k before its failure) did to the caller's context is still there.
C23_AbortKeepsEarlier ==
    (drv.kind = "batch" /\ \E k \in Tasks : task[k].pc = "failed") =>
        LET k == drv.idx
            path == ArrayOf(Main)
            exp == ProcessedUpTo(k)
        IN /\ task[k].pc = "failed"
           /\ drv.pc \in {"running", "failed"}
           /\ drv.pc = "running" => ENABLED BatchFail
           /\ ~ ENABLED BatchContinue /\ ~ ENABLED BatchFinish
           /\ drv.procCalls = 0
           /\ "processedCount" \notin DOMAIN ctx[Main]
           /\ \A j \in Tasks : j > k => task[j] = IdleTask
           /\ \A j \in 1..(k - 1) : task[j].pc = "done"
           /\ Len(path) = Len(exp)
           /\ \A i \in 1..Len(path) : path[i].u = exp[i].u
           /\ ctx[Main]["count"] = SumV(path)

C23_Witness ==
    /\ drv.kind = "batch" /\ drv.pc = "failed" /\ drv.idx = 2
    /\ task[2].pc = "failed" /\ task[2].hist = <<>>
    /\ task[1].pc = "done"
    /\ ArrayOf(Main) = <<[u |-> "A", v |-> 1]>>
    /\ ctx[Main]["count"] = 1

\* ------------------------------------------------------ parameter claims
\* The setting only the parameter set of run j carries.
OwnKey(j) == ParamKeys[j]

\* C24: while a run of a BatchPipeline executes, the context its handlers
\* see holds no setting that only another run's parameter set supplied (the
\* settings are in no context before the batch and no handler writes them).
C24_ParamIsolation ==
    (drv.kind = "batch") =>
        \A k \in 1..Len(drv.inputs) : \A j \in 1..Len(drv.inputs) :
            (j # k /\ Active(task[k])) => OwnKey(j) \notin DOMAIN ctx[task[k].ctx]

\* The units a step has begun in task t, outermost first.
Entered(old, new) == SubSeq(new, Len(old) + 1, Len(new))
\* The keys of the parameters of the units a step has begun.
EnteredKeys(es) == UNION {DOMAIN params[es[i].u] : i \in 1..Len(es)}

\* C25: a step that calls run on units writes their parameters into the
\* context before anything of the unit executes.  For a handler or a nested
\* pipeline begun by the traversal: every parameter of a unit begun is in the
\* context with the parameter's value, unless a unit begun inside it has a
\* parameter of that key; the handler's prepareInputs has run once and on
\* the merged context; every other key of the context is as it was.  For a
\* pipeline instance of a batch the same holds with the instance's
\* parameters (base parameters under the parameter set), and for the batch
\* orchestrator its parameters are in the context prepareBatchParams reads.
C25_RunStep ==
    /\ \A t \in Tasks :
        Len(task'[t].begun) > Len(task[t].begun) =>
            LET c == task'[t].ctx
                es == Entered(task[t].begun, task'[t].begun)
                first == task[t].pc = "idle"
                own == IF first THEN MergedParams(drv'.inputs, t) ELSE NoParams
                base == IF first /\ drv.pc = "idle" THEN params[Batch] ELSE NoParams
                merged == EnteredKeys(es) \cup DOMAIN own \cup DOMAIN base
            IN /\ \A i \in 1..Len(es) : \A key \in DOMAIN params[es[i].u] :
                    (\A j \in (i + 1)..Len(es) : key \notin DOMAIN params[es[j].u])
                        => ctx'[c][key] = params[es[i].u][key]
               /\ \A key \in DOMAIN own :
                    key \notin EnteredKeys(es) => ctx'[c][key] = own[key]
               /\ \A key \in DOMAIN base :
                    key \notin EnteredKeys(es) \cup DOMAIN own => ctx'[c][key] = base[key]
               /\ task'[t].cur = es[Len(es)].u
               /\ task'[t].prepCalls = 1
               /\ task'[t].inputs = prepareInputs(ctx'[c])
               /\ DOMAIN ctx'[c] = DOMAIN ctx[c] \cup merged
               /\ \A key \in DOMAIN ctx[c] \ merged : ctx'[c][key] = ctx[c][key]
    /\ (drv.pc = "idle" /\ drv'.pc = "running") =>
        /\ drv'.inputs = <<>> =>
             \A key \in DOMAIN params[Batch] : ctx'[Main][key] = params[Batch][key]
        /\ "items" \in DOMAIN params[Batch] =>
             /\ Len(drv'.inputs) = Len(params[Batch]["items"])
             /\ \A i \in 1..Len(drv'.inputs) : drv'.inputs[i].a = params[Batch]["items"][i]
        /\ drv'.inputs = <<>> =>
             /\ DOMAIN ctx'[Main] = DOMAIN ctx[Main] \cup DOMAIN params[Batch]
             /\ \A key \in DOMAIN ctx[Main] \ DOMAIN params[Batch] :
                  ctx'[Main][key] = ctx[Main][key]

C25_ParamsMergedFirst == [][C25_RunStep]_vars

C25_Witness ==
    /\ drv.kind = "batch" /\ drv.idx = 1 /\ drv.inputs[1].a = 2
    /\ params[Batch] = [items |-> <<2, 1>>]
    /\ params["A"] = [count |-> 5]
    /\ params["P1"] = [a |-> 8] /\ params["B"] = NoParams
    /\ task[1].pc = "computing" /\ task[1].cur = "B" /\ task[1].stack = <<"P1">>
    /\ task[1].inputs = 8
    /\ ctx[Main]["a"] = 8 /\ ctx[Main]["count"] = 7
    /\ ctx[Main]["items"] = <<2, 1>> /\ ctx[Main]["p1"] = 2

\* ------------------------------------------------------------ retry delay
\* C26: in a handler run with retryDelayMs > 0 a delay is started only after
\* a failed attempt that is not the last one allowed, and the next attempt
\* follows it: while the run waits, the delays started equal the attempts
\* made; otherwise they are one less, so a run that has ended after m
\* attempts has waited m - 1 times, whether it ended in success, fallback or
\* error.  Without a retry delay the run never waits.
C26_DelayBetweenAttempts ==
    \A t \in Tasks :
        LET tk == task[t]
            m == Len(tk.attempts)
        IN tk.last # None =>
            /\ tk.pc = "sleeping" =>
                /\ retryDelayMs[tk.last] > 0
                /\ tk.sleeps = m
                /\ tk.attempts[m] = "fail"
                /\ m < maxRetries[tk.last]
            /\ (tk.pc = "computing" /\ retryDelayMs[tk.last] > 0) =>
                /\ tk.sleeps = m
                /\ tk.calls = m + 1
                /\ \A i \in 1..m : tk.attempts[i] = "fail"
            /\ (tk.pc \in {"returned", "failed", "done"} /\ retryDelayMs[tk.last] > 0) =>
                /\ m >= 1
                /\ tk.sleeps = m - 1
            /\ retryDelayMs[tk.last] = 0 => tk.sleeps = 0 /\ tk.pc # "sleeping"

C26_Witness ==
    /\ retryDelayMs["A"] = 100
    /\ task[1].pc = "returned" /\ task[1].last = "A"
    /\ task[1].attempts = <<"fail", "fail", "ok">>
    /\ task[1].sleeps = 2

\* --------------------------------------------------------- connection API
\* The table after the transition (u, action) -> handler has been written.
Written(u, action, handler) == [successors EXCEPT ![u][action] = handler]

\* C27: connectTo(V, L), pipe(V) and when(L).then(V) on U return V; chain
\* and on return U itself; each of them writes exactly the transition
\* (U, L) -> V, pipe under the label "default".  when(L) alone returns an
\* object that is no unit and leaves every table as it was; the transition
\* of that object is written by the call of its then.
C27_ApiStep ==
    drv.pc = "api" =>
        LET op == drv'.op
            args == drv'.args
            ret == drv'.ret
        IN /\ op = "connectTo" =>
                ret = UnitRef(args[2]) /\ successors' = Written(args[1], args[3], args[2])
           /\ op = "pipe" =>
                ret = UnitRef(args[2]) /\ successors' = Written(args[1], "default", args[2])
           /\ op \in {"chain", "on"} =>
                ret = UnitRef(args[1]) /\ successors' = Written(args[1], args[3], args[2])
           /\ op = "when" =>
                /\ successors' = successors
                /\ ret.kind = "transition"
                /\ drv'.pending = <<ret>>
                /\ ret.unit = args[1] /\ ret.action = args[2]
           /\ op = "then" =>
                /\ drv.pending # <<>>
                /\ ret = UnitRef(args[1])
                /\ successors' =
                     Written(Head(drv.pending).unit, Head(drv.pending).action, args[1])
C28_DirectRejected ==
    drv.direct # <<>> =>
        /\ Head(drv.direct).outcome.kind = "rejected"
        /\ Head(drv.direct).outcome.value
             = "Pipeline.handleRequest() should not be called directly. Use run() instead."
C28_DirectStep ==
    drv'.direct # drv.direct =>
        /\ task' = task
        /\ ctx' = ctx /\ arr' = arr
        /\ successors' = successors /\ currentRetry' = currentRetry
        /\ Head(drv'.direct).outcome.kind = "rejected"
C28_Misuse == [](C28_DirectRejected) /\ [][C28_DirectStep]_vars

C28_Witness ==
    /\ drv.direct # <<>>
    /\ Head(drv.direct).unit = Template
    /\ Head(drv.direct).outcome.kind = "rejected"
    /\ task[1].pc = "computing" /\ task[1].begun = <<[d |-> 0, u |-> "A"]>>
    /\ ctx[Main] = [count |-> 0]

\* ---------------------------------------------------------- per-item retry
\* handleSingleItem is called for an item at most maxRetries times, and no
\* more once the item has settled; handleItemError is called at most once,
\* and only after maxRetries calls of handleSingleItem; the item ends as a
\* fallback or a failure exactly when handleItemError was called.
C29_RetryPerItem ==
    bh.kind = "batch" =>
        \A i \in Items :
            /\ bh.calls[i] <= bh.maxRetries
            /\ bh.calls[i] = bh.attempt[i]
            /\ bh.errCalls[i] <= 1
            /\ bh.errCalls[i] = 1 <=> bh.st[i] \in {"fallback", "failed"}
            /\ bh.errCalls[i] = 1 => bh.calls[i] = bh.maxRetries
            /\ bh.st[i] = "ok" => bh.calls[i] >= 1
\* The value handleItemError returned for an item is in the results of the
\* BatchResult, and the item is not among its errors.
C29_FallbackRecorded ==
    (bh.kind = "batch" /\ bh.pc \in {"resolved", "done"}) =>
        \A i \in Items : bh.st[i] = "fallback" =>
            /\ \E k \in 1..Len(bh.result.results) :
                 bh.result.results[k] = [item |-> i, kind |-> "fallback"]
            /\ \A k \in 1..Len(bh.result.errors) : bh.result.errors[k] # i

\* C29: per item, handleSingleItem is invoked at most maxRetries times and
\* not again after its first success; handleItemError is called once, only
\* after the maxRetries-th failed attempt; a value it returns is recorded in
\* results as a success and not counted in failed.
C29_PerItemRetry == C29_RetryPerItem /\ C29_FallbackRecorded

\* ------------------------------------------- sequential batch handler
\* C30: the processSingleItem variant of BatchHandler passes the items to
\* processSingleItem one at a time and in input order: the items passed so
\* far are a prefix of the inputs, and all but the one in flight have their
\* result recorded, in order.  Once an item's computation has thrown, run is
\* rejected with that item's error, no item after it is ever passed on,
\* processBatchResults is not invoked and the context is as the caller gave
\* it; when no item throws, processBatchResults is invoked once with all
\* results.
C30_SequentialAbort ==
    bh.kind = "simple" =>
        LET n == Len(bh.spy)
        IN /\ n <= Len(bh.inputs)
           /\ bh.spy = SubSeq(bh.inputs, 1, n)
           /\ bh.results = [k \in 1..Len(bh.results) |-> processSingleItem(bh.inputs[k])]
           /\ bh.pc = "running" => bh.cur = n /\ Len(bh.results) = n - 1
           /\ bh.pc = "rejected" =>
                /\ bh.error = n /\ n >= 1
                /\ Len(bh.results) = n - 1
                /\ bh.procCalls = 0 /\ bh.action = None
                /\ DOMAIN ctx[Main] = {"items"} /\ arr[Main] = <<>>
                /\ ~ ENABLED NextSBH
           /\ bh.pc \in {"resolved", "done"} =>
                n = Len(bh.inputs) /\ Len(bh.results) = n
           /\ bh.procCalls = (IF bh.pc = "done" THEN 1 ELSE 0)
           /\ bh.pc = "done" => arr[Main] = bh.results /\ bh.action = "complete"

C30_Witness ==
    /\ bh.kind = "simple" /\ bh.pc = "rejected"
    /\ bh.inputs = <<1, 2, 1>>
    /\ bh.error = 2
    /\ bh.spy = <<1, 2>>
    /\ bh.results = <<processSingleItem(1)>>

\* ------------------------------------------------------------ async handler
AllFail(attempts) == \A i \in 1..Len(attempts) : attempts[i] = "fail"

\* C31: in a run of an AsyncHandler, handleRequestAsync is called at most
\* maxRetries times and never after an attempt succeeded; handleErrorAsync is
\* called at most once, and exactly when maxRetries attempts have all failed;
\* a rejection of prepareInputsAsync or processResultsAsync rejects run at
\* once: nothing is called after it, handleRequestAsync is not called again
\* and handleErrorAsync is not called for it.
C31_AsyncRetry ==
    bh.kind = "async" =>
        LET m == Len(bh.attempts)
        IN /\ bh.calls <= bh.maxRetries
           /\ bh.calls = (IF bh.pc = "computing" THEN m + 1 ELSE m)
           /\ \A i \in 1..(m - 1) : bh.attempts[i] = "fail"
           /\ bh.errCalls <= 1
           /\ bh.errCalls = 1 <=>
                (m = bh.maxRetries /\ AllFail(bh.attempts) /\ bh.pc # "computing")
           /\ bh.prepCalls <= 1 /\ bh.procCalls <= 1
           /\ bh.phase = "prepare" =>
                /\ bh.pc = "rejected" /\ bh.calls = 0 /\ bh.errCalls = 0
                /\ bh.procCalls = 0
           /\ bh.phase = "process" =>
                /\ bh.pc = "rejected" /\ bh.procCalls = 1
                /\ bh.errCalls = (IF bh.output = "fallback" THEN 1 ELSE 0)
                /\ bh.output = "ok" => bh.attempts[m] = "ok"
           /\ bh.pc = "rejected" => ~ ENABLED NextAsync
           /\ bh.pc = "processing" => bh.procCalls = 1

C31_Witness ==
    /\ bh.kind = "async" /\ bh.pc = "rejected" /\ bh.phase = "process"
    /\ bh.maxRetries = 3
    /\ bh.attempts = <<"fail", "ok">>
    /\ bh.calls = 2 /\ bh.errCalls = 0

\* ------------------------------------------------------------ output order
Succeeded(i) == bh.st[i] \in {"ok", "fallback"}

C33_DispatchedAwaited ==
    (bh.kind = "batch" /\ bh.conc > 1 /\ bh.failFast) =>
        /\ bh.pc \in {"resolved", "done", "rejected"} =>
             \A i \in 1..bh.n : bh.st[i] # "running"
        /\ bh.procCalls > 0 => bh.pc = "done"
        /\ bh.pc = "running" => bh.procCalls = 0 /\ bh.action = None

\* A failFast run with maxConcurrency 3 that returned after item 1 failed:
\* items 2 and 3 of the failing chunk were awaited and have settled.
C33_Witness ==
    /\ bh.kind = "batch" /\ bh.conc = 3 /\ bh.failFast /\ bh.n = 5
    /\ bh.pc = "done" /\ bh.procCalls = 1
    /\ bh.result.failed = 1 /\ bh.errors = <<1>>
    /\ bh.st[1] = "failed" /\ bh.st[2] = "ok" /\ bh.st[3] = "fallback"
    /\ bh.st[4] = "pending"

\* ------------------------------------------------------------ diagnostics
\* C34: every handler of these executions is run by an orchestrator's
\* traversal loop, none directly, so the warning that the handler will not
\* run its successors is never written.
C34_NoWarningWhenOrchestrated ==
    \A t \in Tasks : task[t].warned = <<>>

\* ------------------------------------------------------------ shared handlers
\* C35: in a wave whose runs share the template's handler instances, each
\* run of a handler calls handleRequest at most maxRetries times and calls
\* handleError only after maxRetries failed attempts of its own.
C35_RetryBoundPerRun ==
    \A t \in Tasks :
        task[t].last \in Handlers =>
            /\ task[t].calls <= maxRetries[task[t].last]
            /\ task[t].errCalls > 0 =>
                 /\ Len(task[t].attempts) = maxRetries[task[t].last]
                 /\ \A i \in 1..Len(task[t].attempts) : task[t].attempts[i] = "fail"

\* The same bound when the wave has a single run: no other run touches the
\* handler's counter.
C35_RetryBoundAlone ==
    Len(drv.inputs) <= 1 => C35_RetryBoundPerRun

\* ------------------------------------------------------------ reentrancy
\* C36: with two overlapping run calls on one batch orchestrator instance,
\* every template run is given the context of the call that dispatched it (or
\* a copy of it), every merge-back writes to that context, and neither a
\* sub-run nor a call fails because the instance's record of the current
\* context was cleared by the other call.
C36_Reentrant ==
    drv.pc = "overlap" =>
        \A c \in Calls :
            /\ drv.call[c].cause # "cleared"
            /\ \A k \in 1..drv.call[c].n :
                 /\ drv.call[c].sub[k].on \in {<<>>, <<c>>}
                 /\ drv.call[c].sub[k].merged \in {<<>>, <<c>>}
                 /\ drv.call[c].sub[k].cause # "cleared"

\* The same while only one of the two calls has been made.
C36_NotOverlapping ==
    (drv.pc = "overlap" /\ \E c \in Calls : drv.call[c].pc = "idle") => C36_Reentrant

\* ------------------------------------------------------------ single writer
\* The runs of the wave whose copy of `best` differs from the value the main
\* context held at dispatch: the runs that assigned the key.
BestWriters == {k \in Runs : ctx[k]["best"] # drv.snap["best"]}

\* C37: when a ParallelBatchPipeline wave has completed and merged, and
\* exactly one of its runs assigned a key that the context held at dispatch,
\* the main context holds that run's value for the key.
C37_SingleWriterKept ==
    (/\ drv.kind = "parallel" /\ drv.pc = "done"
     /\ "best" \in DOMAIN drv.snap
     /\ Cardinality(BestWriters) = 1)
    => \A k \in BestWriters : ctx[Main]["best"] = ctx[k]["best"]

\* The same when the single writer is the run that merged last.
C37_LastMergedKept ==
    (/\ drv.kind = "parallel" /\ drv.pc = "done"
     /\ "best" \in DOMAIN drv.snap
     /\ Runs # {})
    => \E k \in Runs : \A key \in DOMAIN ctx[k] : key # "path" => ctx[Main][key] = ctx[k][key]

\* ------------------------------------------------------------ one failure
\* C38: under failFast a BatchHandler run records at most one failure,
\* whether sequential or concurrent: errors never holds more than one item,
\* and when handleRequest has returned, failed is 0 or 1 and errors holds
\* exactly the first item in input order that failed, if any item failed.
C38_OneFailure ==
    (bh.kind = "batch" /\ bh.failFast) =>
        /\ Len(bh.errors) <= 1
        /\ bh.pc \in {"resolved", "done"} =>
             LET failedItems == {i \in 1..bh.n : bh.st[i] = "failed"}
             IN /\ bh.result.failed <= 1
                /\ bh.result.failed = Len(bh.result.errors)
                /\ bh.result.errors = bh.errors
                /\ failedItems = {} <=> bh.errors = <<>>
                /\ failedItems # {} =>
                     /\ bh.errors[1] \in failedItems
                     /\ \A i \in failedItems : bh.errors[1] <= i

\* A concurrent failFast run in which items 2 and 3 of the first chunk both
\* failed: only item 2 is recorded.
C38_Witness ==
    /\ bh.kind = "batch" /\ bh.failFast /\ bh.conc = 3 /\ bh.n = 4
    /\ bh.pc = "done"
    /\ bh.st[1] = "ok" /\ bh.st[2] = "failed" /\ bh.st[3] = "failed"
    /\ bh.errors = <<2>> /\ bh.result.failed = 1

\* ------------------------------------------------------------ termination
\* The graph the traversal walks: the registered transitions, and the step
\* from a nested pipeline to its start handler.
TransitionEdges == {e \in Units \X Units : \E l \in Labels : successors[e[1]][l] = e[2]}
ContainmentEdges == {e \in Units \X Units : e[1] \in Pipelines /\ startHandler[e[1]] = e[2]}

RECURSIVE ReachFrom(_, _)
ReachFrom(S, E) ==
    LET S2 == S \cup {e[2] : e \in {f \in E : f[1] \in S}}
    IN IF S2 = S THEN S ELSE ReachFrom(S2, E)

\* The units a traversal from the start unit can come to.
Reachable == ReachFrom({startHandler[Template]}, TransitionEdges \cup ContainmentEdges)
\* Some reachable unit lies on a cycle of the edges E.
CycleReachable(E) ==
    \E u \in Reachable : u \in ReachFrom({e[2] : e \in {f \in E : f[1] = u}}, E)

Halted == task[1].pc \in {"done", "failed"}
Started == task[1].pc # "idle"
Executions(u) == {i \in 1..Len(task[1].begun) : task[1].begun[i].u = u}

\* C39 as stated: when no cycle of registered transitions is reachable from
\* the start unit, a started Pipeline.run eventually halts and executes each
\* unit at most once.
C39_TransitionsAcyclic ==
    /\ [](~ CycleReachable(TransitionEdges) =>
            \A u \in Units : Cardinality(Executions(u)) <= 1)
    /\ ((Started /\ ~ CycleReachable(TransitionEdges)) ~> Halted)

\* C39, amended: when no cycle of transitions and nesting steps is reachable
\* from the start unit, a started Pipeline.run eventually halts, and no
\* traversal loop executes a unit twice (a unit is begun at most once at each
\* depth of nesting); and on any graph a run that has returned did so because
\* the last unit of the top-level loop returned an action for which it has no
\* registered transition.
C39_Termination ==
    /\ [](~ CycleReachable(TransitionEdges \cup ContainmentEdges) =>
            \A i, j \in 1..Len(task[1].begun) :
                i # j => task[1].begun[i] # task[1].begun[j])
    /\ [](task[1].pc = "done" =>
            LET h == task[1].hist[Len(task[1].hist)]
            IN h.d = 0 /\ successors[h.u][h.a] = None)
    /\ ((Started /\ ~ CycleReachable(TransitionEdges \cup ContainmentEdges)) ~> Halted)

\* A run over a cyclic graph that went round the cycle and then halted: A is
\* connected to itself under "go", was executed three times, and returned
\* "default" at last.
C39_WitnessCycle ==
    /\ task[1].pc = "done"
    /\ successors["A"]["go"] = "A" /\ successors["A"]["default"] = None
    /\ Cardinality(Executions("A")) = 3
    /\ task[1].lastAction = "default"

\* A run over a graph without cycle that halted after five units: B was
\* executed inside the nested pipeline and again as a successor.
C39_Witness ==
    /\ task[1].pc = "done"
    /\ ~ CycleReachable(TransitionEdges \cup ContainmentEdges)
    /\ Cardinality(Executions("B")) = 2
    /\ Len(task[1].begun) = 5

\* ------------------------------------------------------------ batch termination
\* C40: a started BatchHandler run over a non-empty list terminates whatever
\* maxConcurrency is, and every iteration of the chunking loop advances
\* through the list.
C40_BatchTerminates ==
    /\ [][(bh.pc = "chunking" /\ bh'.pc = "chunking") => bh'.ci > bh.ci]_vars
    /\ ((bh.kind = "batch" /\ bh.pc # "idle") ~> (bh.pc = "done"))

\* The same for maxConcurrency >= 1 and for Infinity; the chunks the loop
\* builds are then those of chunkArray's closed form.
C40_TerminatesPositive ==
    /\ [][(bh.conc >= 1 /\ bh.pc = "chunking" /\ bh'.pc = "chunking") => bh'.ci > bh.ci]_vars
    /\ []((bh.conc >= 1 /\ bh.pc = "running" /\ "chunks" \in DOMAIN bh /\ bh.conc > 1)
            => bh.chunks = chunkArray(bh.n, bh.conc))
    /\ ((bh.kind = "batch" /\ bh.conc >= 1 /\ bh.pc # "idle") ~> (bh.pc = "done"))
====
